---- MODULE Spec2Model ----
(***************************************************************************)
(* American Mahjong rules engine: Tile, Wall, TileSet, HandValidator,      *)
(* RuleEngine and the GameEngine turn state machine.                       *)
(***************************************************************************)
EXTENDS Integers, Sequences, FiniteSets, Bags, TLC

(***************************************************************************)
(* Tile (engine/tiles/Tile.ts)                                             *)
(***************************************************************************)
BAMBOO == "bamboo"
CHARACTER == "character"
DOT == "dot"
WIND == "wind"
DRAGON == "dragon"
FLOWER == "flower"
JOKER == "joker"

\* new TileClass(type, value, isExposed, id)
TileClass(type, value, isExposed, id) ==
  [id |-> id, type |-> type, value |-> value, isExposed |-> isExposed]

\* JavaScript === on tile values (number | string): a number never equals a
\* string, and ToString keeps the two apart.
SameValue(a, b) == ToString(a) = ToString(b)

\* Array.prototype.includes on a value list
Includes(list, v) == \E i \in 1..Len(list) : SameValue(list[i], v)

\* Tile.equals: same type and value, whatever the id and the exposure.  Tiles
\* of one type carry values of one kind (Wall.initialize), so behind the type
\* test = compares the values as === does.
TileEquals(a, b) == a.type = b.type /\ a.value = b.value

(***************************************************************************)
(* Generic array helpers (JavaScript Array methods used by the engine)     *)
(***************************************************************************)
\* findIndex(t => t.id === id): the first position holding the id, 0 if none
\* (JavaScript's -1)
FindIndexById(arr, id) ==
  IF \E i \in 1..Len(arr) : arr[i].id = id
  THEN CHOOSE i \in 1..Len(arr) :
         arr[i].id = id /\ \A j \in 1..(i - 1) : arr[j].id # id
  ELSE 0

\* splice(i, 1)
SpliceOne(arr, i) ==
  [k \in 1..(Len(arr) - 1) |-> IF k < i THEN arr[k] ELSE arr[k + 1]]

\* const i = arr.findIndex(...); if (i !== -1) arr.splice(i, 1)
RemoveById(arr, id) ==
  IF FindIndexById(arr, id) # 0 THEN SpliceOne(arr, FindIndexById(arr, id)) ELSE arr

\* arr.filter(pred) for a predicate given as the set of positions kept
FilterPositions(arr, keep) ==
  LET F[i \in 0..Len(arr)] ==
        IF i = 0 THEN << >>
        ELSE IF i \in keep THEN Append(F[i - 1], arr[i]) ELSE F[i - 1]
  IN F[Len(arr)]

(***************************************************************************)
(* Wall (engine/tiles/Wall.ts)                                             *)
(***************************************************************************)
SuitedTypes == <<BAMBOO, CHARACTER, DOT>>
Winds == <<"N", "E", "S", "W">>
Dragons == <<"Red", "Green", "White">>
SuitValues == 9
Copies == 4
JokerCopies == 8

NumSuited == Len(SuitedTypes) * SuitValues * Copies
NumWinds == Len(Winds) * Copies
NumDragons == Len(Dragons) * Copies
WallSize == NumSuited + NumWinds + NumDragons + JokerCopies

\* the i-th tile Wall.initialize creates; it gets the id i (ids are unique
\* strings in the code)
CreatedTile(i) ==
  IF i <= NumSuited
  THEN TileClass(SuitedTypes[((i - 1) \div (SuitValues * Copies)) + 1],
                 (((i - 1) % (SuitValues * Copies)) \div Copies) + 1, FALSE, i)
  ELSE IF i <= NumSuited + NumWinds
  THEN TileClass(WIND, Winds[((i - NumSuited - 1) \div Copies) + 1], FALSE, i)
  ELSE IF i <= NumSuited + NumWinds + NumDragons
  THEN TileClass(DRAGON, Dragons[((i - NumSuited - NumWinds - 1) \div Copies) + 1],
                 FALSE, i)
  ELSE TileClass(JOKER, "Joker", FALSE, i)

\* Wall.initialize: the tiles array in creation order
InitialTiles == SubSeq([i \in 1..WallSize |-> CreatedTile(i)], 1, WallSize)

\* Wall.shuffle: Fisher-Yates, i from the last position down to the second;
\* rand[i] is the position j <= i that Math.floor(Math.random() * (i + 1))
\* picks (positions count from 1 here)
Swap(tiles, i, j) == [tiles EXCEPT ![i] = tiles[j], ![j] = tiles[i]]

\* the loop steps i = hi, hi - 1, ..., lo in that order.  The range is halved
\* and the tiles after the upper half are computed (their length taken)
\* before the lower half starts, which keeps the evaluation shallow; the
\* steps and their order are the loop's.
RECURSIVE ShuffleSteps(_, _, _, _)
ShuffleSteps(tiles, lo, hi, rand) ==
  IF lo > hi THEN tiles
  ELSE IF lo = hi THEN Swap(tiles, lo, rand[lo])
  ELSE LET mid == (lo + hi) \div 2
           upper == ShuffleSteps(tiles, mid + 1, hi, rand)
       IN IF Len(upper) = Len(tiles) THEN ShuffleSteps(upper, lo, mid, rand) ELSE upper

Shuffle(tiles, rand) == ShuffleSteps(tiles, 2, Len(tiles), rand)

\* What Math.random gives Wall.shuffle (as the index j it selects at each
\* step), one list per deal explored.
\* Deal 1: seat 0 waits for character 4 (with_jokers), seat 1 for bamboo 5
\* (all_pungs); the tiles that complete a hand are the last six of the wall.
\* Deal 2: seat 0 holds a pair of east, seat 1 three dot 1, seat 2 a pair of
\* south, seat 3 a pair of west; the fourth dot 1 is drawn sixth from last.
RandomSource1 ==
  <<
  1, 1, 3, 1, 5, 3, 5, 1, 8, 8, 8, 4, 12, 1, 2, 3, 5, 6, 7, 9, 10, 11, 13, 14,
  15, 17, 4, 8, 12, 16, 25, 29, 33, 21, 27, 35, 31, 23, 19, 39, 40, 30, 26, 30, 34, 22, 28, 36,
  32, 24, 19, 18, 21, 22, 23, 24, 25, 26, 27, 28, 29, 30, 31, 32, 33, 34, 35, 36, 53, 54, 55, 56,
  57, 58, 59, 60, 61, 62, 63, 64, 65, 66, 67, 68, 69, 70, 71, 72, 75, 76, 79, 80, 83, 84, 87, 88,
  91, 92, 95, 96, 99, 100, 103, 104, 51, 19, 51, 19, 51, 19, 51, 19, 51, 19, 51, 19, 51, 19, 51, 19,
  51, 19, 51, 19, 18, 51, 19, 18, 51, 19, 18, 51, 19, 18, 51, 19, 52, 20, 50, 18, 51, 19, 52, 20
  >>

RandomSource2 ==
  <<
  1, 2, 3, 3, 3, 3, 1, 6, 8, 1, 10, 2, 3, 3, 11, 6, 15, 10, 2, 8, 16, 19, 14, 19,
  20, 23, 10, 10, 1, 6, 10, 14, 18, 22, 26, 30, 34, 4, 3, 11, 35, 36, 42, 35, 35, 3, 11, 19,
  27, 35, 44, 20, 2, 3, 4, 7, 8, 11, 12, 15, 16, 19, 20, 23, 24, 27, 28, 31, 32, 35, 36, 38,
  39, 40, 43, 44, 46, 47, 48, 51, 52, 55, 56, 59, 60, 63, 64, 67, 68, 71, 72, 77, 78, 79, 80, 81,
  82, 83, 84, 85, 86, 87, 88, 89, 90, 91, 92, 93, 94, 95, 96, 97, 98, 99, 100, 101, 102, 103, 104, 105,
  106, 107, 108, 110, 111, 112, 126, 127, 128, 130, 131, 132, 76, 76, 76, 76, 76, 76, 76, 140, 141, 142, 143, 144
  >>

\* Deal 3, dealt by the GameProvider: seat 0 waits for bamboo 9 or bamboo 5
\* (all_pungs) and holds a pair of bamboo 5, seat 1 waits for bamboo 5, seat 2
\* for character 4 or a joker (with_jokers); the wall starts with bamboo 9,
\* red, green, bamboo 5, white, red and five jokers.
RandomSource3 ==
  <<
  1, 1, 3, 2, 4, 3, 4, 3, 5, 9, 1, 5, 6, 1, 2, 3, 5, 6, 7, 9, 10, 11, 13, 14,
  15, 19, 8, 24, 4, 16, 12, 20, 32, 28, 8, 28, 35, 24, 32, 32, 12, 20, 39, 12, 8, 28, 35, 24,
  40, 12, 39, 24, 35, 51, 24, 20, 55, 52, 40, 54, 59, 61, 62, 50, 51, 52, 4, 8, 12, 16, 24, 28,
  32, 36, 39, 40, 44, 53, 54, 55, 56, 57, 58, 59, 60, 61, 62, 63, 64, 65, 66, 67, 68, 69, 70, 71,
  72, 74, 75, 76, 78, 79, 80, 82, 83, 84, 86, 87, 88, 90, 91, 92, 94, 95, 96, 98, 99, 100, 102, 103,
  104, 106, 107, 108, 110, 111, 112, 114, 115, 116, 118, 119, 120, 122, 123, 124, 127, 128, 130, 131, 132, 134, 135, 136
  >>

RandomSources == <<RandomSource1, RandomSource2>>

\* the tiles array of a wall: as Wall.initialize leaves it (order 0, the wall
\* of the constructor), or after Wall.shuffle with random source number order
WallOrders ==
  <<Shuffle(InitialTiles, RandomSource1), Shuffle(InitialTiles, RandomSource2),
    Shuffle(InitialTiles, RandomSource3)>>

WallTiles(order) == IF order = 0 THEN InitialTiles ELSE WallOrders[order]

\* Wall.isEmpty
IsEmpty(w) == w.drawnCount >= Len(w.tiles)

\* Wall.getRemainingCount
GetRemainingCount(w) ==
  IF Len(w.tiles) - w.drawnCount > 0 THEN Len(w.tiles) - w.drawnCount ELSE 0

\* Wall.getRemainingTiles: tiles.slice(drawnCount)
GetRemainingTiles(w) ==
  [k \in 1..GetRemainingCount(w) |-> w.tiles[w.drawnCount + k]]

\* what Wall.draw returns when the wall is empty
Null == [id |-> 0, type |-> "null", value |-> "null", isExposed |-> FALSE]

\* a faulty draw() that moves the cursor past two tiles
WallDrawSkipsOne(w) ==
  IF w.drawnCount >= Len(w.tiles) THEN <<Null, w>>
  ELSE <<w.tiles[w.drawnCount + 1], [w EXCEPT !.drawnCount = @ + 2]>>

\* a faulty draw() that moves the cursor on an empty wall as well
WallDrawUnguarded(w) ==
  IF IsEmpty(w) THEN <<Null, [w EXCEPT !.drawnCount = w.drawnCount + 1]>>
  ELSE <<w.tiles[w.drawnCount + 1], [w EXCEPT !.drawnCount = w.drawnCount + 1]>>

\* Wall.draw: <<tile or Null, wall after>>
WallDraw(w) ==
  IF IsEmpty(w) THEN <<Null, w>>
  ELSE <<w.tiles[w.drawnCount + 1], [w EXCEPT !.drawnCount = w.drawnCount + 1]>>

\* Wall.drawMultiple(count): <<tiles drawn, wall after>>
RECURSIVE WallDrawMultiple(_, _)
WallDrawMultiple(w, count) ==
  IF count = 0 \/ IsEmpty(w) THEN << << >>, w >>
  ELSE LET d == WallDraw(w)
           rest == WallDrawMultiple(d[2], count - 1)
       IN << <<d[1]>> \o rest[1], rest[2] >>

(***************************************************************************)
(* CardConfig (config/CardTypes.ts).  An optional field of a requirement   *)
(* (specific, values) is << >> when absent and <<list>> when present.      *)
(***************************************************************************)
ANY == "any"
SAME_SUIT == "same_suit"

TileRequirement(type, count, sequence, specific, values, jokerAllowed) ==
  [type |-> type, count |-> count, sequence |-> sequence, specific |-> specific,
   values |-> values, jokerAllowed |-> jokerAllowed]

HandPattern(id, points, tiles) == [id |-> id, points |-> points, tiles |-> tiles]

(***************************************************************************)
(* HandValidator (engine/validation/HandValidator.ts)                      *)
(***************************************************************************)
Reverse(s) == [i \in 1..Len(s) |-> s[Len(s) + 1 - i]]

\* the positions of the jokers of arr
JokerPositions(arr) == {i \in 1..Len(arr) : arr[i].type = JOKER}

\* the loop "for i from the end: if joker, jokers.push and splice": the jokers
\* come out in reverse order, the other tiles keep theirs
CollectJokers(arr) == Reverse(FilterPositions(arr, JokerPositions(arr)))
WithoutJokers(arr) == FilterPositions(arr, (1..Len(arr)) \ JokerPositions(arr))

\* splice(0, n) on the joker list: what is left
DropFirst(arr, n) == IF n >= Len(arr) THEN << >> ELSE SubSeq(arr, n + 1, Len(arr))

\* HandValidator.tileMatchesRequirement; valueList = specific || values
TileMatchesRequirement(tile, type, specific, values) ==
  IF tile.type = JOKER THEN FALSE
  ELSE IF type # ANY /\ type # SAME_SUIT /\ tile.type # type THEN FALSE
  ELSE LET valueList == IF specific # << >> THEN specific ELSE values
       IN IF valueList # << >> /\ Len(valueList[1]) > 0
          THEN Includes(valueList[1], tile.value)
          ELSE TRUE

\* the positions of the non-joker tiles that match the requirement
MatchingTiles(tiles, req) ==
  {i \in 1..Len(tiles) :
     TileMatchesRequirement(tiles[i], req.type, req.specific, req.values)}

\* the Map of groups keyed by `${type}:${value}`: each group is named by the
\* position of its first tile, so the order of the positions is the insertion
\* order of the keys
GroupHeads(tiles, matching) ==
  {i \in matching : \A j \in matching : j < i => ~TileEquals(tiles[j], tiles[i])}

\* the positions of the tiles of the group of one head, in order
GroupPositions(tiles, matching, head) ==
  {j \in matching : TileEquals(tiles[j], tiles[head])}

\* the n smallest elements of a set of positions
FirstN(S, n) == {i \in S : Cardinality({j \in S : j < i}) < n}

Min(a, b) == IF a < b THEN a ELSE b
Max(a, b) == IF a > b THEN a ELSE b

\* the groups, each the set of the positions of its tiles, that pass
\* availableCount + jokers.length >= count
FittingGroups(tiles, matching, jokerCount, count) ==
  {g \in {GroupPositions(tiles, matching, h) : h \in GroupHeads(tiles, matching)} :
     Cardinality(g) + jokerCount >= count}

\* the smallest position of a non-empty set of positions
FirstPosition(S) == CHOOSE i \in S : \A j \in S : i <= j

\* the fitting group the loop over the Map reaches first: the one whose key
\* was inserted first
FirstGroup(groups) ==
  CHOOSE g \in groups : \A h \in groups : FirstPosition(g) <= FirstPosition(h)

\* a fitting group is consumed: min(count, availableCount) of its tiles leave
\* rest, the jokers needed leave the joker list when the requirement allows
\* jokers, and the jokers left go back to the end of the array
TakeGroup(jokers, rest, req, group) ==
  [matched |-> TRUE,
   tiles |->
     FilterPositions(rest, (1..Len(rest))
                             \ FirstN(group, Min(req.count, Cardinality(group))))
     \o (IF Max(0, req.count - Cardinality(group)) > 0 /\ req.jokerAllowed
         THEN DropFirst(jokers, Max(0, req.count - Cardinality(group)))
         ELSE jokers)]

\* the loop over the groups, then the jokers pushed back when none fits
MatchGroups(jokers, rest, req, fitting) ==
  IF fitting # {} THEN TakeGroup(jokers, rest, req, FirstGroup(fitting))
  ELSE [matched |-> FALSE, tiles |-> rest \o jokers]

\* the grouping of the non-joker tiles that match the requirement
MatchJokersApart(jokers, rest, req) ==
  MatchGroups(jokers, rest, req,
              FittingGroups(rest, MatchingTiles(rest, req), Len(jokers), req.count))

\* HandValidator.matchRequirement, the non-sequence branch:
\* [matched, tiles] with tiles the availableTiles array afterwards
MatchIdentical(availableTiles, req) ==
  MatchJokersApart(CollectJokers(availableTiles), WithoutJokers(availableTiles), req)

\* scanning from the end: the positions taken as matched tiles; a value is
\* taken once (neededValues.delete), at its last position
SequencePositions(availableTiles, suitType, values) ==
  {i \in 1..Len(availableTiles) :
     /\ availableTiles[i].type # JOKER
     /\ availableTiles[i].type = suitType
     /\ Includes(values, availableTiles[i].value)
     /\ \A j \in (i + 1)..Len(availableTiles) :
          ~(availableTiles[j].type = suitType
            /\ availableTiles[j].value = availableTiles[i].value)}

\* new Set(values).size
DistinctCount(values) ==
  Cardinality({i \in 1..Len(values) :
                 \A j \in 1..(i - 1) : ~SameValue(values[j], values[i])})

\* what matchSequenceForSuit leaves: the matched tiles and the jokers were
\* spliced out from the end (so they come back reversed)
SequenceOutcome(availableTiles, matchedPos, jokerPos, neededCount, jokerAllowed) ==
  LET rest == FilterPositions(availableTiles,
                              (1..Len(availableTiles)) \ (matchedPos \cup jokerPos))
      missingCount == neededCount - Cardinality(matchedPos)
  IN IF missingCount = 0
     THEN [matched |-> TRUE, tiles |-> rest]
     ELSE IF jokerAllowed /\ Cardinality(jokerPos) >= missingCount
     THEN [matched |-> TRUE,
           tiles |-> rest \o DropFirst(Reverse(FilterPositions(availableTiles, jokerPos)),
                                       missingCount)]
     ELSE [matched |-> FALSE,
           tiles |-> rest \o Reverse(FilterPositions(availableTiles, matchedPos))
                          \o Reverse(FilterPositions(availableTiles, jokerPos))]

\* HandValidator.matchSequenceForSuit: [matched, tiles]
MatchSequenceForSuit(availableTiles, suitType, values, jokerAllowed) ==
  SequenceOutcome(availableTiles, SequencePositions(availableTiles, suitType, values),
                  JokerPositions(availableTiles), DistinctCount(values), jokerAllowed)

\* the loop over the suits: the next suit is tried on the array as the failed
\* attempt left it
TrySuit(r, suitType, values, jokerAllowed) ==
  IF r.matched THEN r
  ELSE MatchSequenceForSuit(r.tiles, suitType, values, jokerAllowed)

\* HandValidator.matchSequence: [matched, tiles]
MatchSequence(availableTiles, req) ==
  IF req.values = << >> \/ Len(req.values[1]) = 0
  THEN [matched |-> FALSE, tiles |-> availableTiles]
  ELSE IF req.type = SAME_SUIT
  THEN TrySuit(TrySuit(MatchSequenceForSuit(availableTiles, BAMBOO, req.values[1],
                                            req.jokerAllowed),
                       CHARACTER, req.values[1], req.jokerAllowed),
               DOT, req.values[1], req.jokerAllowed)
  ELSE IF req.type # ANY
  THEN MatchSequenceForSuit(availableTiles, req.type, req.values[1], req.jokerAllowed)
  ELSE [matched |-> FALSE, tiles |-> availableTiles]

\* HandValidator.matchRequirement
MatchRequirement(availableTiles, req) ==
  IF req.sequence THEN MatchSequence(availableTiles, req)
  ELSE MatchIdentical(availableTiles, req)

\* HandValidator.matchPattern: every requirement in order on the shrinking
\* working copy, then nothing may be left
RECURSIVE MatchFrom(_, _, _)
MatchFrom(availableTiles, reqs, k) ==
  IF k > Len(reqs) THEN Len(availableTiles) = 0
  ELSE \E r \in {MatchRequirement(availableTiles, reqs[k])} :
         r.matched /\ MatchFrom(r.tiles, reqs, k + 1)

MatchPattern(tiles, pattern) == MatchFrom(tiles, pattern.tiles, 1)

\* HandValidator.calculateScore
CalculateScore(pattern) == pattern.points

\* allTiles = [...hand, ...set.tiles for each exposed set]
RECURSIVE SetTiles(_)
SetTiles(exposedSets) ==
  IF Len(exposedSets) = 0 THEN << >>
  ELSE Head(exposedSets).tiles \o SetTiles(Tail(exposedSets))

AllTiles(hand, exposedSets) == hand \o SetTiles(exposedSets)

HandSize == 14

\* a faulty loop that goes on to the last pattern that matches
LastMatching(config, matching) ==
  IF matching # {}
  THEN [isValid |-> TRUE, matchedPattern |-> Len(config.patterns) + 1 - FirstPosition({Len(config.patterns) + 1 - k : k \in matching}),
        score |-> CalculateScore(config.patterns[Len(config.patterns) + 1 - FirstPosition({Len(config.patterns) + 1 - k : k \in matching})]),
        error |-> ""]
  ELSE [isValid |-> FALSE, matchedPattern |-> 0, score |-> 0,
        error |-> "Hand does not match any valid pattern"]

\* the first pattern of the card that matches (the loop returns there)
FirstMatching(config, matching) ==
  IF matching # {}
  THEN [isValid |-> TRUE, matchedPattern |-> FirstPosition(matching),
        score |-> CalculateScore(config.patterns[FirstPosition(matching)]),
        error |-> ""]
  ELSE [isValid |-> FALSE, matchedPattern |-> 0, score |-> 0,
        error |-> "Hand does not match any valid pattern"]

\* a faulty validateHand() without the check of the size
ValidateTilesAnySize(config, allTiles) ==
  FirstMatching(config, {k \in 1..Len(config.patterns) :
                           MatchPattern(allTiles, config.patterns[k])})

ValidateTiles(config, allTiles) ==
  IF Len(allTiles) # HandSize
  THEN [isValid |-> FALSE, matchedPattern |-> 0, score |-> 0,
        error |-> "Invalid hand size"]
  ELSE FirstMatching(config, {k \in 1..Len(config.patterns) :
                                MatchPattern(allTiles, config.patterns[k])})

\* HandValidator.validateHand: matchedPattern is the position of the first
\* matching pattern in cardConfig.patterns, 0 when there is none
ValidateHand(config, hand, exposedSets) ==
  ValidateTiles(config, AllTiles(hand, exposedSets))

(***************************************************************************)
(* TileSet (engine/tiles/TileSet.ts)                                       *)
(***************************************************************************)
PUNG == "pung"
KONG == "kong"
MAHJONG == "mahjong"
PungSize == 3
KongSize == 4

\* TileSetClass.validate for pung and kong: the size, and every tile equal
\* to the first
ValidSet(type, tiles) ==
  /\ Len(tiles) = (IF type = PUNG THEN PungSize ELSE KongSize)
  /\ \A i \in 1..Len(tiles) : TileEquals(tiles[i], tiles[1])

(***************************************************************************)
(* RuleEngine (engine/validation/RuleEngine.ts)                            *)
(***************************************************************************)
NumPlayers == 4

\* hand.filter(tile => same type and value as the discard, and not a joker)
MatchingPositions(hand, discardedTile) ==
  {i \in 1..Len(hand) :
     /\ hand[i].type = discardedTile.type
     /\ hand[i].value = discardedTile.value
     /\ hand[i].type # JOKER}

PungTilesNeeded == 2
KongTilesNeeded == 3

\* RuleEngine.validatePungCall(...).isValid
ValidatePungCall(hand, discardedTile) ==
  /\ discardedTile.type # JOKER
  /\ Cardinality(MatchingPositions(hand, discardedTile)) >= PungTilesNeeded

\* RuleEngine.validateKongCall(...).isValid
ValidateKongCall(hand, discardedTile) ==
  /\ discardedTile.type # JOKER
  /\ Cardinality(MatchingPositions(hand, discardedTile)) >= KongTilesNeeded

\* RuleEngine.validateMahjongCall(hand, discardedTile).isValid, with a discard
ValidateMahjongCall(hand, discardedTile) == Len(hand) + 1 = HandSize

CallOpportunity(playerId, callType, tile) ==
  [playerId |-> playerId, callType |-> callType, tile |-> tile]

\* faulty entries of one player: pung listed before kong
PlayerOpportunitiesPungFirst(discardedTile, playerId, hand, handValidator) ==
  (IF /\ ValidateMahjongCall(hand, discardedTile)
      /\ \/ handValidator = << >>
         \/ ValidateHand(handValidator[1], Append(hand, discardedTile), << >>).isValid
   THEN <<CallOpportunity(playerId, MAHJONG, discardedTile)>> ELSE << >>)
  \o (IF ValidatePungCall(hand, discardedTile)
      THEN <<CallOpportunity(playerId, PUNG, discardedTile)>> ELSE << >>)
  \o (IF ValidateKongCall(hand, discardedTile)
      THEN <<CallOpportunity(playerId, KONG, discardedTile)>> ELSE << >>)

\* the entries one player contributes, in the order mahjong, kong, pung.
\* handValidator is << >> when the caller passes none (as GameEngine does)
\* and <<cardConfig>> when it passes a validator.
PlayerOpportunities(discardedTile, playerId, hand, handValidator) ==
  (IF /\ ValidateMahjongCall(hand, discardedTile)
      /\ \/ handValidator = << >>
         \/ ValidateHand(handValidator[1], Append(hand, discardedTile), << >>).isValid
   THEN <<CallOpportunity(playerId, MAHJONG, discardedTile)>> ELSE << >>)
  \o (IF ValidateKongCall(hand, discardedTile)
      THEN <<CallOpportunity(playerId, KONG, discardedTile)>> ELSE << >>)
  \o (IF ValidatePungCall(hand, discardedTile)
      THEN <<CallOpportunity(playerId, PUNG, discardedTile)>> ELSE << >>)

\* RuleEngine.getCallOpportunities: every player of the array in order, the
\* discarder skipped.  ps is a function from player ids 0..n-1 to players.
GetCallOpportunities(discardedTile, discarder, ps, handValidator) ==
  LET n == Cardinality(DOMAIN ps)
      F[i \in 0..n] ==
        IF i = 0 THEN << >>
        ELSE IF i - 1 = discarder THEN F[i - 1]
        ELSE F[i - 1] \o PlayerOpportunities(discardedTile, i - 1, ps[i - 1].hand,
                                             handValidator)
  IN F[n]

\* RuleEngine.getNextPlayer
GetNextPlayer(p) == (p + 1) % NumPlayers

\* RuleEngine.getPlayerDistance: the seats from fromPlayer round to toPlayer
GetPlayerDistance(fromPlayer, toPlayer) == (toPlayer - fromPlayer + NumPlayers) % NumPlayers

\* the calls of one type, in the order of the list (opportunities.filter)
MatchingCalls(opportunities, priority) ==
  SelectSeq(opportunities, LAMBDA opp : opp.callType = priority)

\* the loop over matchingCalls from index i on: an entry replaces the closest
\* one so far only when it is strictly closer
RECURSIVE ClosestFrom(_, _, _, _)
ClosestFrom(matchingCalls, i, closestPlayer, currentPlayer) ==
  IF i > Len(matchingCalls) THEN closestPlayer
  ELSE IF GetPlayerDistance(currentPlayer, matchingCalls[i].playerId)
            < GetPlayerDistance(currentPlayer, closestPlayer.playerId)
       THEN ClosestFrom(matchingCalls, i + 1, matchingCalls[i], currentPlayer)
       ELSE ClosestFrom(matchingCalls, i + 1, closestPlayer, currentPlayer)

\* the order in which resolveCallPriority looks for calls
PriorityOrder == <<MAHJONG, KONG, PUNG>>

\* the loop over priorityOrder from index k on
RECURSIVE ResolveFrom(_, _, _)
ResolveFrom(opportunities, currentPlayer, k) ==
  IF k > Len(PriorityOrder) THEN Null
  ELSE IF Len(MatchingCalls(opportunities, PriorityOrder[k])) > 0
       THEN ClosestFrom(MatchingCalls(opportunities, PriorityOrder[k]), 2,
                        MatchingCalls(opportunities, PriorityOrder[k])[1], currentPlayer)
       ELSE ResolveFrom(opportunities, currentPlayer, k + 1)

\* a faulty resolveCallPriority that takes the first call listed, whatever
\* its type and seat
ResolveCallPriorityFirstListed(opportunities, currentPlayer) ==
  IF Len(opportunities) = 0 THEN Null ELSE opportunities[1]

\* RuleEngine.resolveCallPriority; Null when no call is made
ResolveCallPriority(opportunities, currentPlayer) ==
  IF Len(opportunities) = 0 THEN Null
  ELSE ResolveFrom(opportunities, currentPlayer, 1)

\* a faulty validateDiscard that accepts any tile
ValidateDiscardAnyTile(tile, hand) == TRUE

\* RuleEngine.validateDiscard
ValidateDiscard(tile, hand) == \E i \in 1..Len(hand) : hand[i].id = tile.id

\* a faulty RuleEngine.processCall that leaves one of the matching tiles in
\* the hand
RuleProcessCallKeepsOne(hand, discardedTile, callType, firstId) ==
  LET matching == MatchingPositions(hand, discardedTile)
      tilesNeeded == IF callType = PUNG THEN PungTilesNeeded ELSE KongTilesNeeded
      taken == FirstN(matching, tilesNeeded)
      takenTiles == FilterPositions(hand, taken)
      tilesToUse ==
        <<TileClass(discardedTile.type, discardedTile.value, TRUE, firstId)>>
        \o [k \in 1..Len(takenTiles) |->
              TileClass(takenTiles[k].type, takenTiles[k].value, TRUE, firstId + k)]
  IN IF Cardinality(matching) < tilesNeeded \/ ~ValidSet(callType, tilesToUse)
     THEN [ok |-> FALSE, hand |-> hand, tileSet |-> [type |-> callType, tiles |-> << >>]]
     ELSE [ok |-> TRUE,
           hand |-> FilterPositions(hand, (1..Len(hand)) \ FirstN(matching, tilesNeeded - 1)),
           tileSet |-> [type |-> callType, tiles |-> tilesToUse]]

\* a faulty RuleEngine.processCall that counts the jokers of the hand among
\* the matching tiles
RuleProcessCallTakesJokers(hand, discardedTile, callType, firstId) ==
  LET matching == MatchingPositions(hand, discardedTile) \cup JokerPositions(hand)
      tilesNeeded == IF callType = PUNG THEN PungTilesNeeded ELSE KongTilesNeeded
      taken == FirstN(matching, tilesNeeded)
      takenTiles == FilterPositions(hand, taken)
      tilesToUse ==
        <<TileClass(discardedTile.type, discardedTile.value, TRUE, firstId)>>
        \o [k \in 1..Len(takenTiles) |->
              TileClass(discardedTile.type, discardedTile.value, TRUE, firstId + k)]
  IN IF Cardinality(matching) < tilesNeeded
     THEN [ok |-> FALSE, hand |-> hand, tileSet |-> [type |-> callType, tiles |-> << >>]]
     ELSE [ok |-> TRUE,
           hand |-> FilterPositions(hand, (1..Len(hand)) \ taken),
           tileSet |-> [type |-> callType, tiles |-> tilesToUse]]

\* RuleEngine.processCall for pung and kong:
\* [ok, hand, tileSet]; ok = FALSE stands for the thrown Error.  The set is
\* built of new TileClass objects (fresh ids firstId, firstId + 1, ...), the
\* copy of the discard first.
RuleProcessCall(hand, discardedTile, callType, firstId) ==
  LET matching == MatchingPositions(hand, discardedTile)
      tilesNeeded == IF callType = PUNG THEN PungTilesNeeded ELSE KongTilesNeeded
      taken == FirstN(matching, tilesNeeded)
      takenTiles == FilterPositions(hand, taken)
      tilesToUse ==
        <<TileClass(discardedTile.type, discardedTile.value, TRUE, firstId)>>
        \o [k \in 1..Len(takenTiles) |->
              TileClass(takenTiles[k].type, takenTiles[k].value, TRUE, firstId + k)]
  IN IF Cardinality(matching) < tilesNeeded \/ ~ValidSet(callType, tilesToUse)
     THEN [ok |-> FALSE, hand |-> hand, tileSet |-> [type |-> callType, tiles |-> << >>]]
     ELSE [ok |-> TRUE,
           hand |-> FilterPositions(hand, (1..Len(hand)) \ taken),
           tileSet |-> [type |-> callType, tiles |-> tilesToUse]]

(***************************************************************************)
(* The card configuration the engine is constructed with: the patterns of  *)
(* the HandValidator test fixture.                                         *)
(***************************************************************************)
AllPungs ==
  HandPattern("all_pungs", 25,
    <<TileRequirement(BAMBOO, 3, FALSE, << >>, << >>, FALSE),
      TileRequirement(BAMBOO, 3, FALSE, << >>, << >>, FALSE),
      TileRequirement(BAMBOO, 3, FALSE, << >>, << >>, FALSE),
      TileRequirement(BAMBOO, 3, FALSE, << >>, << >>, FALSE),
      TileRequirement(BAMBOO, 2, FALSE, << >>, << >>, FALSE)>>)

WithJokers ==
  HandPattern("with_jokers", 30,
    <<TileRequirement(CHARACTER, 4, FALSE, << <<1>> >>, << >>, TRUE),
      TileRequirement(CHARACTER, 4, FALSE, << <<2>> >>, << >>, TRUE),
      TileRequirement(CHARACTER, 4, FALSE, << <<3>> >>, << >>, TRUE),
      TileRequirement(CHARACTER, 2, FALSE, << <<4>> >>, << >>, TRUE)>>)

SequencePattern ==
  HandPattern("sequence_pattern", 35,
    <<TileRequirement(SAME_SUIT, 9, TRUE, << >>, << <<1, 2, 3, 4, 5, 6, 7, 8, 9>> >>, TRUE),
      TileRequirement(DRAGON, 5, FALSE, << <<"Red">> >>, << >>, FALSE)>>)

cardConfig == [year |-> 2024, version |-> "1.0",
               patterns |-> <<AllPungs, WithJokers, SequencePattern>>]

(***************************************************************************)
(* GameEngine (engine/game/GameEngine.ts)                                  *)
(***************************************************************************)
VARIABLES
  players,        \* state.players: player id -> Player; empty before initializeGame
  wallOrder,      \* this.wall.tiles, as the order WallTiles turns into the array
  drawnCount,     \* this.wall.drawnCount
  stateWall,      \* state.wall: the remaining tiles as of the last updateWallInState
  discardPile,    \* state.discardPile
  currentPlayer,  \* state.currentPlayer
  turnPhase,      \* state.turnPhase
  gameStatus,     \* state.gameStatus
  winnerId,       \* state.winnerId, Undefined when there is none
  nextId,         \* the id the next TileClass created during play gets
  lastOp,         \* the most recent operation and how it ended
  callArgs,       \* the arguments of the most recent call of a method that returns a value
  callResult,     \* what that call returned
  pending,        \* GameProvider: the timers set and the decisions awaited, a bag
  running         \* GameProvider: where the callback that is running has got to

vars == <<players, wallOrder, drawnCount, stateWall, discardPile, currentPlayer, turnPhase,
          gameStatus, winnerId, nextId, lastOp, callArgs, callResult, pending, running>>

\* the record of the most recent value-returning call
returned == <<callArgs, callResult>>

\* what the GameProvider adds to the engine
provider == <<pending, running>>

\* this.wall
wall == [tiles |-> WallTiles(wallOrder), drawnCount |-> drawnCount]

\* everything but the record of the last operation
game == <<players, wallOrder, drawnCount, stateWall, discardPile, currentPlayer, turnPhase,
          gameStatus, winnerId, nextId>>

DRAW == "draw"
DISCARD == "discard"
CALL_OPPORTUNITY == "call_opportunity"
GAME_OVER == "game_over"

IN_PROGRESS == "in_progress"
WON == "won"
DRAW_GAME == "draw"

Undefined == -1

\* no callback is running
Idle == [at |-> "idle", player |-> Undefined, then |-> "none"]

OK == "ok"
RETURNED_NULL == "null"
INVALID_MOVE == "invalid_move"
GAME_STATE_ERROR == "game_state_error"
PLAIN_ERROR == "error"

NoCall == "none"

\* the record of an operation: its name, how it ended, and for processCall
\* the call type it was given
Op(name, outcome) == [op |-> name, outcome |-> outcome, callType |-> NoCall]
CallOp(callType, outcome) ==
  [op |-> "processCall", outcome |-> outcome, callType |-> callType]

DealSize == 13

NewPlayer(id, isHuman, hand) ==
  [id |-> id, isHuman |-> isHuman, hand |-> hand, exposedSets |-> << >>,
   discardedTiles |-> << >>]

\* GameEngine.getPlayer(playerId) !== undefined
HasPlayer(playerId) == playerId \in DOMAIN players

\* GameEngine.isWallExhausted
IsWallExhausted == IsEmpty(wall)

\* a faulty endGame that records the winner without the status WON
EndGameAsDraw(winner) ==
  /\ gameStatus' = DRAW_GAME
  /\ winnerId' = winner
  /\ turnPhase' = GAME_OVER
  /\ UNCHANGED currentPlayer

\* GameEngine.endGame(winnerId): on currentPlayer, turnPhase, gameStatus, winnerId
EndGame(winner) ==
  /\ IF winner # Undefined
     THEN gameStatus' = WON /\ winnerId' = winner
     ELSE gameStatus' = DRAW_GAME /\ UNCHANGED winnerId
  /\ turnPhase' = GAME_OVER
  /\ UNCHANGED currentPlayer

\* a faulty advanceTurn that passes the turn without looking at the wall
AdvanceTurnAnyWall ==
  /\ currentPlayer' = GetNextPlayer(currentPlayer)
  /\ turnPhase' = DRAW
  /\ UNCHANGED <<gameStatus, winnerId>>

\* GameEngine.advanceTurn: on currentPlayer, turnPhase, gameStatus, winnerId
AdvanceTurn ==
  IF IsWallExhausted
  THEN EndGame(Undefined)
  ELSE /\ currentPlayer' = GetNextPlayer(currentPlayer)
       /\ turnPhase' = DRAW
       /\ UNCHANGED <<gameStatus, winnerId>>

\* GameEngine.evaluateCallOpportunity on the players ps: the discarder is
\* state.currentPlayer, and no validator is passed
EvaluateCallOpportunity(discardedTile, ps) ==
  GetCallOpportunities(discardedTile, currentPlayer, ps, << >>)

\* GameEngine.checkWinCondition
CheckWinCondition(playerId) ==
  IF ~HasPlayer(playerId) THEN FALSE
  ELSE ValidateHand(cardConfig, players[playerId].hand,
                    players[playerId].exposedSets).isValid

\* the constructor: createInitialState and a new, unshuffled Wall
Constructed ==
  /\ players = << >>
  /\ wallOrder = 0
  /\ drawnCount = 0
  /\ stateWall = << >>
  /\ discardPile = << >>
  /\ currentPlayer = 0
  /\ turnPhase = DRAW
  /\ gameStatus = IN_PROGRESS
  /\ winnerId = Undefined
  /\ nextId = WallSize + 1
  /\ lastOp = Op("constructor", OK)

\* a new engine, nothing called yet
Init ==
  /\ Constructed
  /\ callArgs = << >>
  /\ callResult = << >>
  /\ pending = EmptyBag
  /\ running = Idle

\* GameEngine.dealTiles on a wall w: <<hands by player id, wall after>>
DealTiles(w) ==
  LET d0 == WallDrawMultiple(w, DealSize)
      d1 == WallDrawMultiple(d0[2], DealSize)
      d2 == WallDrawMultiple(d1[2], DealSize)
      d3 == WallDrawMultiple(d2[2], DealSize)
  IN <<[p \in 0..(NumPlayers - 1) |->
          IF p = 0 THEN d0[1] ELSE IF p = 1 THEN d1[1]
          ELSE IF p = 2 THEN d2[1] ELSE d3[1]], d3[2]>>

\* a faulty initializeGame() that leaves status and winner as they were
InitializeGameKeepsStatus(rand) ==
  LET w == [tiles |-> WallTiles(rand), drawnCount |-> 0]
      dealt == DealTiles(w)
  IN /\ wallOrder' = rand
     /\ drawnCount' = dealt[2].drawnCount
     /\ players' = [p \in 0..(NumPlayers - 1) |-> NewPlayer(p, p = 0, dealt[1][p])]
     /\ currentPlayer' = 0
     /\ discardPile' = << >>
     /\ turnPhase' = DRAW
     /\ stateWall' = GetRemainingTiles(dealt[2])
     /\ nextId' = WallSize + 1
     /\ lastOp' = Op("initializeGame", OK)
     /\ UNCHANGED <<gameStatus, winnerId>>

\* GameEngine.initializeGame; rand says which of RandomSources Math.random
\* follows during wall.shuffle()
InitializeGame(rand) ==
  LET w == [tiles |-> WallTiles(rand), drawnCount |-> 0]
      dealt == DealTiles(w)
  IN /\ wallOrder' = rand
     /\ drawnCount' = dealt[2].drawnCount
     /\ players' = [p \in 0..(NumPlayers - 1) |-> NewPlayer(p, p = 0, dealt[1][p])]
     /\ currentPlayer' = 0
     /\ discardPile' = << >>
     /\ turnPhase' = DRAW
     /\ gameStatus' = IN_PROGRESS
     /\ winnerId' = Undefined
     /\ stateWall' = GetRemainingTiles(dealt[2])
     /\ nextId' = WallSize + 1
     /\ lastOp' = Op("initializeGame", OK)

Throw(name, error) == lastOp' = Op(name, error) /\ UNCHANGED game
ThrowCall(callType, error) == lastOp' = CallOp(callType, error) /\ UNCHANGED game

\* GameEngine.drawTile(playerId)
DrawTile(playerId) ==
  IF ~HasPlayer(playerId) THEN Throw("drawTile", GAME_STATE_ERROR)
  ELSE IF currentPlayer # playerId THEN Throw("drawTile", INVALID_MOVE)
  ELSE IF turnPhase # DRAW THEN Throw("drawTile", INVALID_MOVE)
  ELSE LET d == WallDraw(wall)
       IN IF d[1].id = Null.id
          THEN lastOp' = Op("drawTile", RETURNED_NULL) /\ UNCHANGED game
          ELSE /\ drawnCount' = d[2].drawnCount
               /\ UNCHANGED wallOrder
               /\ players' = [players EXCEPT ![playerId].hand = Append(@, d[1])]
               /\ stateWall' = GetRemainingTiles(d[2])
               /\ turnPhase' = DISCARD
               /\ lastOp' = Op("drawTile", OK)
               /\ UNCHANGED <<discardPile, currentPlayer, gameStatus, winnerId, nextId>>

\* faulty players after the discard: the discard history is not kept
AfterDiscardNoHistory(playerId, tile) ==
  [players EXCEPT ![playerId].hand = RemoveById(@, tile.id)]

\* the players after the discard: the tile out of the hand, onto the
\* player's discard history
AfterDiscard(playerId, tile) ==
  [players EXCEPT ![playerId].hand = RemoveById(@, tile.id),
                  ![playerId].discardedTiles = Append(@, tile)]

\* GameEngine.discardTile(playerId, tile)
DiscardTile(playerId, tile) ==
  IF ~HasPlayer(playerId) THEN Throw("discardTile", GAME_STATE_ERROR)
  ELSE IF currentPlayer # playerId THEN Throw("discardTile", INVALID_MOVE)
  ELSE IF turnPhase # DISCARD THEN Throw("discardTile", INVALID_MOVE)
  ELSE IF ~ValidateDiscard(tile, players[playerId].hand)
  THEN Throw("discardTile", INVALID_MOVE)
  ELSE /\ players' = AfterDiscard(playerId, tile)
       /\ discardPile' = Append(discardPile, tile)
       /\ IF Len(EvaluateCallOpportunity(tile, AfterDiscard(playerId, tile))) > 0
          THEN /\ turnPhase' = CALL_OPPORTUNITY
               /\ UNCHANGED <<currentPlayer, gameStatus, winnerId>>
          ELSE AdvanceTurn
       /\ lastOp' = Op("discardTile", OK)
       /\ UNCHANGED <<wallOrder, drawnCount, stateWall, nextId>>

\* a faulty processCall that does not hand the turn to the caller
ProcessCallKeepsTurn(playerId, callType, tile) ==
  IF ~HasPlayer(playerId) THEN ThrowCall(callType, GAME_STATE_ERROR)
  ELSE IF turnPhase # CALL_OPPORTUNITY THEN ThrowCall(callType, INVALID_MOVE)
  ELSE IF callType = MAHJONG
  THEN IF ~ValidateHand(cardConfig, Append(players[playerId].hand, tile),
                        players[playerId].exposedSets).isValid
       THEN ThrowCall(callType, INVALID_MOVE)
       ELSE /\ players' = [players EXCEPT ![playerId].hand = Append(@, tile)]
            /\ EndGame(playerId)
            /\ lastOp' = CallOp(callType, OK)
            /\ UNCHANGED <<wallOrder, drawnCount, stateWall, discardPile, nextId>>
  ELSE LET r == RuleProcessCall(players[playerId].hand, tile, callType, nextId)
       IN IF ~r.ok THEN ThrowCall(callType, PLAIN_ERROR)
          ELSE /\ players' = [players EXCEPT
                                ![playerId].hand = r.hand,
                                ![playerId].exposedSets = Append(@, r.tileSet)]
               /\ nextId' = nextId + Len(r.tileSet.tiles)
               /\ discardPile' = RemoveById(discardPile, tile.id)
               /\ turnPhase' = DISCARD
               /\ lastOp' = CallOp(callType, OK)
               /\ UNCHANGED <<wallOrder, drawnCount, stateWall, gameStatus, winnerId,
                              currentPlayer>>

\* a faulty processCall after which the caller is to draw before discarding
ProcessCallToDraw(playerId, callType, tile) ==
  IF ~HasPlayer(playerId) THEN ThrowCall(callType, GAME_STATE_ERROR)
  ELSE IF turnPhase # CALL_OPPORTUNITY THEN ThrowCall(callType, INVALID_MOVE)
  ELSE IF callType = MAHJONG
  THEN IF ~ValidateHand(cardConfig, Append(players[playerId].hand, tile),
                        players[playerId].exposedSets).isValid
       THEN ThrowCall(callType, INVALID_MOVE)
       ELSE /\ players' = [players EXCEPT ![playerId].hand = Append(@, tile)]
            /\ EndGame(playerId)
            /\ lastOp' = CallOp(callType, OK)
            /\ UNCHANGED <<wallOrder, drawnCount, stateWall, discardPile, nextId>>
  ELSE LET r == RuleProcessCall(players[playerId].hand, tile, callType, nextId)
       IN IF ~r.ok THEN ThrowCall(callType, PLAIN_ERROR)
          ELSE /\ players' = [players EXCEPT
                                ![playerId].hand = r.hand,
                                ![playerId].exposedSets = Append(@, r.tileSet)]
               /\ nextId' = nextId + Len(r.tileSet.tiles)
               /\ discardPile' = RemoveById(discardPile, tile.id)
               /\ currentPlayer' = playerId
               /\ turnPhase' = IF GetRemainingCount(wall) > 0 THEN DRAW ELSE DISCARD
               /\ lastOp' = CallOp(callType, OK)
               /\ UNCHANGED <<wallOrder, drawnCount, stateWall, gameStatus, winnerId>>

\* GameEngine.processCall(playerId, callType, tile)
ProcessCall(playerId, callType, tile) ==
  IF ~HasPlayer(playerId) THEN ThrowCall(callType, GAME_STATE_ERROR)
  ELSE IF turnPhase # CALL_OPPORTUNITY THEN ThrowCall(callType, INVALID_MOVE)
  ELSE IF callType = MAHJONG
  THEN IF ~ValidateHand(cardConfig, Append(players[playerId].hand, tile),
                        players[playerId].exposedSets).isValid
       THEN ThrowCall(callType, INVALID_MOVE)
       ELSE /\ players' = [players EXCEPT ![playerId].hand = Append(@, tile)]
            /\ EndGame(playerId)
            /\ lastOp' = CallOp(callType, OK)
            /\ UNCHANGED <<wallOrder, drawnCount, stateWall, discardPile, nextId>>
  ELSE LET r == RuleProcessCall(players[playerId].hand, tile, callType, nextId)
       IN IF ~r.ok THEN ThrowCall(callType, PLAIN_ERROR)
          ELSE /\ players' = [players EXCEPT
                                ![playerId].hand = r.hand,
                                ![playerId].exposedSets = Append(@, r.tileSet)]
               /\ nextId' = nextId + Len(r.tileSet.tiles)
               /\ discardPile' = RemoveById(discardPile, tile.id)
               /\ currentPlayer' = playerId
               /\ turnPhase' = DISCARD
               /\ lastOp' = CallOp(callType, OK)
               /\ UNCHANGED <<wallOrder, drawnCount, stateWall, gameStatus, winnerId>>

\* a faulty declineCallOpportunities that advances the turn in every phase
DeclineCallOpportunitiesAnyPhase ==
  /\ AdvanceTurn
  /\ lastOp' = Op("declineCallOpportunities", OK)
  /\ UNCHANGED <<players, wallOrder, drawnCount, stateWall, discardPile, nextId>>

\* GameEngine.declineCallOpportunities
DeclineCallOpportunities ==
  IF turnPhase # CALL_OPPORTUNITY
  THEN lastOp' = Op("declineCallOpportunities", "ignored") /\ UNCHANGED game
  ELSE /\ AdvanceTurn
       /\ lastOp' = Op("declineCallOpportunities", OK)
       /\ UNCHANGED <<players, wallOrder, drawnCount, stateWall, discardPile, nextId>>

\* a faulty declareMahjong that does not validate the hand
DeclareMahjongUnchecked(playerId, withTile) ==
  IF ~HasPlayer(playerId) THEN Throw("declareMahjong", GAME_STATE_ERROR)
  ELSE /\ players' = [players EXCEPT ![playerId].hand = @ \o withTile]
       /\ discardPile' = IF withTile # << >>
                         THEN RemoveById(discardPile, withTile[1].id)
                         ELSE discardPile
       /\ EndGame(playerId)
       /\ lastOp' = Op("declareMahjong", OK)
       /\ UNCHANGED <<wallOrder, drawnCount, stateWall, nextId>>

\* GameEngine.declareMahjong(playerId, withTile); withTile is << >> when the
\* argument is omitted and <<tile>> when it is given
DeclareMahjong(playerId, withTile) ==
  IF ~HasPlayer(playerId) THEN Throw("declareMahjong", GAME_STATE_ERROR)
  ELSE LET handToValidate == players[playerId].hand \o withTile
       IN IF ~ValidateHand(cardConfig, handToValidate,
                           players[playerId].exposedSets).isValid
          THEN Throw("declareMahjong", INVALID_MOVE)
          ELSE /\ players' = [players EXCEPT ![playerId].hand = @ \o withTile]
               /\ discardPile' = IF withTile # << >>
                                 THEN RemoveById(discardPile, withTile[1].id)
                                 ELSE discardPile
               /\ EndGame(playerId)
               /\ lastOp' = Op("declareMahjong", OK)
               /\ UNCHANGED <<wallOrder, drawnCount, stateWall, nextId>>

(***************************************************************************)
(* The inputs of the operations                                            *)
(***************************************************************************)
PlayerIds == 0..(NumPlayers - 1)
CallTypes == {PUNG, KONG, MAHJONG}

\* the seats choose their discard freely only while fewer than
\* FreeChoiceWindow tiles remain in the wall; before that they discard the
\* last tile of the hand (the one just drawn)
FreeChoiceWindow == 1

\* how many of the most recent discards a call or declaration may name
CallTileDepth == 1

\* the tiles discardTile is tried with: the last tile of the hand, the first
\* one inside the free-choice window, and one tile of the next seat's hand
\* (which the player does not hold)
DiscardInputs(playerId) ==
  IF ~HasPlayer(playerId) THEN {Null}
  ELSE LET hand == players[playerId].hand
           other == players[GetNextPlayer(playerId)].hand
       IN {hand[i] : i \in {i \in {1, Len(hand)} :
                              /\ i >= 1 /\ i <= Len(hand)
                              /\ i = Len(hand) \/ GetRemainingCount(wall) < FreeChoiceWindow}}
          \cup {other[i] : i \in {i \in {1} : i <= Len(other)}}

\* the tiles a call or a declaration is tried with: the most recent discards
CallInputs ==
  {discardPile[i] : i \in {i \in 1..Len(discardPile) : i > Len(discardPile) - CallTileDepth}}

Next ==
  \/ (\E rand \in 1..Len(RandomSources) : InitializeGame(rand)) /\ UNCHANGED <<returned, provider>>
  \/ (\E p \in PlayerIds : DrawTile(p)) /\ UNCHANGED <<returned, provider>>
  \/ (\E p \in PlayerIds : \E t \in DiscardInputs(p) : DiscardTile(p, t)) /\ UNCHANGED <<returned, provider>>
  \/ (\E p \in PlayerIds : \E c \in CallTypes : \E t \in CallInputs : ProcessCall(p, c, t)) /\ UNCHANGED <<returned, provider>>
  \/ (DeclineCallOpportunities) /\ UNCHANGED <<returned, provider>>
  \/ (\E p \in PlayerIds : DeclareMahjong(p, << >>)) /\ UNCHANGED <<returned, provider>>
  \/ (\E p \in PlayerIds : \E t \in CallInputs : DeclareMahjong(p, <<t>>)) /\ UNCHANGED <<returned, provider>>

Spec == Init /\ [][Next]_vars

(***************************************************************************)
(* The engine with its public dealTiles() called from outside as well.     *)
(* initializeGame is the only caller in the repository; the method is      *)
(* public, and a second and third deal empty the wall while the phase is   *)
(* still DRAW.                                                             *)
(***************************************************************************)
\* GameEngine.dealTiles() as a call of its own: every player's hand is
\* replaced by the next 13 tiles of the wall (fewer when the wall runs out);
\* state.wall is not refreshed.  It is tried before the first draw of a game.
DealTilesAction ==
  /\ turnPhase = DRAW
  /\ discardPile = << >>
  /\ IF players = << >>
     THEN UNCHANGED <<players, drawnCount>>
     ELSE \E dealt \in {DealTiles(wall)} :
            /\ players' = [p \in DOMAIN players |->
                             [players[p] EXCEPT !.hand = dealt[1][p]]]
            /\ drawnCount' = dealt[2].drawnCount
  /\ lastOp' = Op("dealTiles", OK)
  /\ UNCHANGED <<wallOrder, stateWall, discardPile, currentPlayer, turnPhase,
                 gameStatus, winnerId, nextId>>

NextWithDeal ==
  \/ (\E rand \in 1..Len(RandomSources) : InitializeGame(rand)) /\ UNCHANGED <<returned, provider>>
  \/ (DealTilesAction) /\ UNCHANGED <<returned, provider>>
  \/ (\E p \in PlayerIds : DrawTile(p)) /\ UNCHANGED <<returned, provider>>
  \/ (\E p \in PlayerIds : \E t \in DiscardInputs(p) : DiscardTile(p, t)) /\ UNCHANGED <<returned, provider>>
  \/ (\E p \in PlayerIds : \E c \in CallTypes : \E t \in CallInputs : ProcessCall(p, c, t)) /\ UNCHANGED <<returned, provider>>
  \/ (DeclineCallOpportunities) /\ UNCHANGED <<returned, provider>>
  \/ (\E p \in PlayerIds : DeclareMahjong(p, << >>)) /\ UNCHANGED <<returned, provider>>
  \/ (\E p \in PlayerIds : \E t \in CallInputs : DeclareMahjong(p, <<t>>)) /\ UNCHANGED <<returned, provider>>

SpecWithDeal == Init /\ [][NextWithDeal]_vars

(***************************************************************************)
(* Properties                                                              *)
(***************************************************************************)
\* the tiles a seat holds: its concealed hand and the tiles of its exposed sets
SeatTiles(p) == Len(players[p].hand) + Len(SetTiles(players[p].exposedSets))

\* hands, exposed sets, discard pile and the tiles left in the wall
TotalTiles ==
  SeatTiles(0) + SeatTiles(1) + SeatTiles(2) + SeatTiles(3)
    + Len(discardPile) + GetRemainingCount(wall)

\* C1: once initializeGame has run, after any sequence of drawTile,
\* discardTile, processCall, declineCallOpportunities and declareMahjong the
\* four hands, the exposed sets, the discard pile and the remaining wall hold
\* exactly 144 tiles together.
C1_TileConservation == players # << >> => TotalTiles = WallSize

\* C2: while the game is in progress a seat holds (concealed and exposed
\* together) 14 tiles if it is the current player in phase DISCARD and 13
\* otherwise; no seat ever holds more than 14.
C2_SeatTileCount ==
  \A p \in DOMAIN players :
    /\ gameStatus = IN_PROGRESS =>
         SeatTiles(p) = (IF currentPlayer = p /\ turnPhase = DISCARD
                         THEN HandSize ELSE DealSize)
    /\ SeatTiles(p) <= HandSize

\* a caller that has just exposed a set decides its discard
C2_Witness ==
  /\ players # << >>
  /\ gameStatus = IN_PROGRESS
  /\ turnPhase = DISCARD
  /\ Len(players[currentPlayer].exposedSets) > 0
  /\ SeatTiles(currentPlayer) = HandSize

\* the tile is one of the seat's concealed tiles
Holds(p, t) == \E i \in 1..Len(players[p].hand) : players[p].hand[i].id = t.id

\* arr without the element at position i
Without(arr, i) == SubSeq(arr, 1, i - 1) \o SubSeq(arr, i + 1, Len(arr))

\* seat q may call the discard t: mahjong by the count of its concealed
\* tiles, pung (and kong) by two equal tiles that are not jokers
SeatCanCall(q, t) ==
  \/ Len(players[q].hand) + 1 = HandSize
  \/ /\ t.type # JOKER
     /\ Cardinality({i \in 1..Len(players[q].hand) :
                       TileEquals(players[q].hand[i], t)}) >= 2

\* what a successful discard of t by seat p leaves
DiscardOutcome(p, t) ==
  /\ lastOp' = Op("discardTile", OK)
  /\ \E i \in 1..Len(players[p].hand) :
       /\ players[p].hand[i].id = t.id
       /\ players'[p].hand = Without(players[p].hand, i)
  /\ discardPile' = Append(discardPile, t)
  /\ players'[p].discardedTiles = Append(players[p].discardedTiles, t)
  /\ players'[p].exposedSets = players[p].exposedSets
  /\ \A q \in PlayerIds \ {p} : players'[q] = players[q]
  /\ IF \E q \in PlayerIds \ {p} : SeatCanCall(q, t)
     THEN /\ turnPhase' = CALL_OPPORTUNITY
          /\ currentPlayer' = p
          /\ gameStatus' = gameStatus
     ELSE IF GetRemainingCount(wall) = 0
     THEN gameStatus' = DRAW_GAME /\ turnPhase' = GAME_OVER
     ELSE /\ currentPlayer' = (p + 1) % NumPlayers
          /\ turnPhase' = DRAW
          /\ gameStatus' = gameStatus

\* C3: a discardTile by the current player in phase DISCARD of a tile of its
\* hand removes exactly that tile from the hand and appends it to the discard
\* pile and to the player's discard history; then the phase is
\* CALL_OPPORTUNITY with the same current player if another seat can call,
\* and otherwise the next seat is to draw, or the game ends with status DRAW
\* if the wall is empty.
C3_Discard ==
  [][\A p \in PlayerIds : \A t \in DiscardInputs(p) :
       (/\ lastOp'.op = "discardTile"
        /\ HasPlayer(p)
        /\ currentPlayer = p
        /\ turnPhase = DISCARD
        /\ Holds(p, t)
        /\ DiscardTile(p, t)) => DiscardOutcome(p, t)]_vars

\* a discard nobody can call has passed the turn to the next seat
C3_Witness ==
  /\ lastOp = Op("discardTile", OK)
  /\ turnPhase = DRAW
  /\ gameStatus = IN_PROGRESS

\* C4: discardTile by a seat that is not the current player, in a phase other
\* than DISCARD, or of a tile that is not in the seat's hand throws
\* InvalidMove and leaves the whole game state unchanged.
C4_DiscardRejected ==
  [][\A p \in PlayerIds : \A t \in DiscardInputs(p) :
       (/\ lastOp'.op = "discardTile"
        /\ HasPlayer(p)
        /\ currentPlayer # p \/ turnPhase # DISCARD \/ ~Holds(p, t)
        /\ DiscardTile(p, t))
       => (lastOp' = Op("discardTile", INVALID_MOVE) /\ UNCHANGED game)]_vars

\* the current player, in phase DISCARD, was refused a tile it does not hold
C4_Witness ==
  /\ lastOp = Op("discardTile", INVALID_MOVE)
  /\ turnPhase = DISCARD
  /\ gameStatus = IN_PROGRESS

\* C5: drawTile succeeds only for the current player in phase DRAW; then
\* exactly one tile, the next of the wall, moves to that player's hand and
\* the phase becomes DISCARD; by another seat or in another phase it throws
\* InvalidMove and changes nothing.
C5_Draw ==
  [][\A p \in PlayerIds :
       (lastOp'.op = "drawTile" /\ HasPlayer(p) /\ DrawTile(p)) =>
         IF currentPlayer = p /\ turnPhase = DRAW
         THEN GetRemainingCount(wall) > 0 =>
                /\ lastOp' = Op("drawTile", OK)
                /\ GetRemainingCount(wall') = GetRemainingCount(wall) - 1
                /\ players'[p].hand = Append(players[p].hand, GetRemainingTiles(wall)[1])
                /\ players'[p].exposedSets = players[p].exposedSets
                /\ \A q \in PlayerIds \ {p} : players'[q] = players[q]
                /\ discardPile' = discardPile
                /\ turnPhase' = DISCARD
                /\ currentPlayer' = p
         ELSE lastOp' = Op("drawTile", INVALID_MOVE) /\ UNCHANGED game]_vars

\* the current player has drawn and is to discard
C5_Witness ==
  /\ lastOp = Op("drawTile", OK)
  /\ turnPhase = DISCARD
  /\ SeatTiles(currentPlayer) = HandSize

DrawPhaseHasTiles == (players # << >> /\ turnPhase = DRAW) => GetRemainingCount(wall) > 0

\* what a successful pung or kong call of t by seat p leaves
CallOutcome(p, c, t) ==
  /\ Len(players'[p].exposedSets) = Len(players[p].exposedSets) + 1
  /\ SubSeq(players'[p].exposedSets, 1, Len(players[p].exposedSets))
       = players[p].exposedSets
  /\ players'[p].exposedSets[Len(players'[p].exposedSets)].type = c
  /\ Len(players'[p].exposedSets[Len(players'[p].exposedSets)].tiles)
       = (IF c = PUNG THEN 3 ELSE 4)
  /\ Len(players'[p].hand) = Len(players[p].hand) - (IF c = PUNG THEN 2 ELSE 3)
  /\ Len(discardPile') = Len(discardPile) - 1
  /\ \A i \in 1..Len(discardPile') : discardPile'[i].id # t.id
  /\ currentPlayer' = p
  /\ turnPhase' = DISCARD

\* C7: a successful pung or kong processCall in phase CALL_OPPORTUNITY gives
\* the caller one new exposed set of 3 (pung) or 4 (kong) tiles, takes 2 or 3
\* tiles out of its concealed hand, takes the called tile out of the discard
\* pile, makes the caller the current player and sets the phase to DISCARD;
\* in any other phase processCall throws InvalidMove and changes nothing.
C7_Call ==
  [][lastOp'.op = "processCall" =>
       IF turnPhase = CALL_OPPORTUNITY
       THEN \A p \in PlayerIds : \A c \in {PUNG, KONG} : \A t \in CallInputs :
              (/\ HasPlayer(p)
               /\ lastOp'.outcome = OK
               /\ ProcessCall(p, c, t)) => CallOutcome(p, c, t)
       ELSE \/ lastOp'.outcome = INVALID_MOVE /\ UNCHANGED game
            \/ \A p \in PlayerIds : \A c \in CallTypes : \A t \in CallInputs :
                 ~(HasPlayer(p) /\ ProcessCall(p, c, t))]_vars

\* a kong has been called and the caller is to discard
C7_Witness ==
  /\ lastOp = CallOp(KONG, OK)
  /\ gameStatus = IN_PROGRESS
  /\ turnPhase = DISCARD
  /\ \E i \in 1..Len(players[currentPlayer].exposedSets) :
       players[currentPlayer].exposedSets[i].type = KONG

\* the hand of seat p with the tile (if any) of the declaration or call
Wins(p, withTile) ==
  ValidateHand(cardConfig, players[p].hand \o withTile, players[p].exposedSets).isValid

\* the arguments declareMahjong is tried with
DeclareInputs == {<< >>} \cup {<<t>> : t \in CallInputs}

\* C8: the status becomes WON with winner s only by a declareMahjong or a
\* mahjong processCall of seat s whose concealed tiles, exposed sets and
\* called tile (if any) pass HandValidator.validateHand at that moment; a
\* declaration or mahjong call on a hand that does not validate throws
\* InvalidMove and leaves the state, and so the status, unchanged (stated
\* the other way round: a declaration or mahjong call that does anything
\* else than throw InvalidMove with the state unchanged is on a hand that
\* validates).
C8_Win ==
  [][/\ (gameStatus' = WON /\ (gameStatus # WON \/ winnerId' # winnerId)) =>
          /\ HasPlayer(winnerId')
          /\ \/ \E w \in DeclareInputs :
                  DeclareMahjong(winnerId', w) /\ Wins(winnerId', w)
             \/ \E t \in CallInputs :
                  ProcessCall(winnerId', MAHJONG, t) /\ Wins(winnerId', <<t>>)
     /\ (/\ lastOp'.op = "declareMahjong"
         /\ ~(lastOp'.outcome = INVALID_MOVE /\ UNCHANGED game)) =>
          \A p \in PlayerIds : \A w \in DeclareInputs :
            (HasPlayer(p) /\ DeclareMahjong(p, w)) => Wins(p, w)
     /\ (/\ lastOp'.op = "processCall"
         /\ lastOp'.callType = MAHJONG
         /\ ~(lastOp'.outcome = INVALID_MOVE /\ UNCHANGED game)) =>
          \A p \in PlayerIds : \A t \in CallInputs :
            (HasPlayer(p) /\ ProcessCall(p, MAHJONG, t)) => Wins(p, <<t>>)]_vars

\* a seat has won by declaring mahjong on its own draw
C8_Witness ==
  /\ lastOp = Op("declareMahjong", OK)
  /\ gameStatus = WON
  /\ turnPhase = GAME_OVER
  /\ discardPile # << >>
  /\ Len(players[winnerId].hand) = HandSize

\* the seat that made the most recent discard
Discarder ==
  CHOOSE p \in PlayerIds :
    /\ players[p].discardedTiles # << >>
    /\ players[p].discardedTiles[Len(players[p].discardedTiles)].id
         = discardPile[Len(discardPile)].id

\* C9: declineCallOpportunities in phase CALL_OPPORTUNITY passes the turn to
\* the seat after the discarder, in phase DRAW, or ends the game with status
\* DRAW if the wall is empty, and changes no hand, no exposed set and not the
\* discard pile; in any other phase it changes nothing.
C9_Decline ==
  [][DeclineCallOpportunities =>
       IF turnPhase = CALL_OPPORTUNITY
       THEN /\ UNCHANGED <<players, discardPile>>
            /\ IF GetRemainingCount(wall) = 0
               THEN gameStatus' = DRAW_GAME /\ turnPhase' = GAME_OVER
               ELSE /\ currentPlayer' = (Discarder + 1) % NumPlayers
                    /\ turnPhase' = DRAW
                    /\ gameStatus' = IN_PROGRESS
       ELSE UNCHANGED game]_vars

\* the calls were declined and the next seat is to draw
C9_Witness ==
  /\ lastOp = Op("declineCallOpportunities", OK)
  /\ turnPhase = DRAW
  /\ gameStatus = IN_PROGRESS
  /\ discardPile # << >>

\* seat q is eligible for a call of type c on the discard t
Eligible(q, c, t) ==
  LET equal == Cardinality({i \in 1..Len(players[q].hand) :
                              /\ players[q].hand[i].type # JOKER
                              /\ TileEquals(players[q].hand[i], t)})
  IN IF c = MAHJONG THEN Len(players[q].hand) + 1 = 14
     ELSE IF c = KONG THEN t.type # JOKER /\ equal >= 3
     ELSE t.type # JOKER /\ equal >= 2

\* mahjong before kong before pung
CallRank(c) == IF c = MAHJONG THEN 1 ELSE IF c = KONG THEN 2 ELSE 3

\* the three-argument call getCallOpportunities(t, d, players) (the only
\* form the repository uses) answers as C10 says
OpportunitiesAsClaimed(t, d, opps) ==
  /\ \A q \in PlayerIds : \A c \in CallTypes :
       Cardinality({i \in 1..Len(opps) :
                      opps[i].playerId = q /\ opps[i].callType = c})
         = (IF q # d /\ Eligible(q, c, t) THEN 1 ELSE 0)
  /\ \A i \in 1..Len(opps) : \A j \in 1..Len(opps) :
       (i < j /\ opps[i].playerId = opps[j].playerId)
         => CallRank(opps[i].callType) < CallRank(opps[j].callType)
  /\ \A i \in 1..Len(opps) : opps[i].playerId # d

MaxOpportunities == 3

\* the discarded tiles the opportunities are about: a character 1 and a joker
PriorityTiles == {CreatedTile(1), CreatedTile(WallSize)}

\* the lists of at most MaxOpportunities calls on the discarded tile t
OpportunityLists(t) ==
  UNION {[1..n -> {CallOpportunity(p, c, t) : p \in PlayerIds, c \in CallTypes}] :
           n \in 0..MaxOpportunities}

\* the arguments resolveCallPriority is called with
PriorityArgs ==
  {[opportunities |-> opps, currentPlayer |-> discarder] :
     opps \in UNION {OpportunityLists(t) : t \in PriorityTiles}, discarder \in PlayerIds}

InitPriority ==
  /\ Constructed
  /\ callArgs \in PriorityArgs
  /\ callResult = << >>
  /\ pending = EmptyBag
  /\ running = Idle

\* ruleEngine.resolveCallPriority(opportunities, currentPlayer)
ResolveCallPriorityCall ==
  /\ callResult' = ResolveCallPriority(callArgs.opportunities, callArgs.currentPlayer)
  /\ lastOp' = Op("resolveCallPriority", OK)
  /\ UNCHANGED <<game, callArgs, provider>>

NextPriority == ResolveCallPriorityCall

SpecPriority == InitPriority /\ [][NextPriority]_vars

\* the list opps in the order perm
Reordered(opps, perm) == [k \in 1..Len(opps) |-> opps[perm[k]]]

\* C11: resolveCallPriority returns null for an empty list; otherwise it
\* returns an entry of the list of the highest priority class present
\* (mahjong over kong over pung) whose seat has the smallest clockwise
\* distance (seat - discarder + 4) mod 4 within that class, and it returns
\* the same for every ordering of the list.
C11_CallPriority ==
  lastOp.op = "resolveCallPriority" =>
    \A opps \in {callArgs.opportunities} : \A d \in {callArgs.currentPlayer} :
      /\ Len(opps) = 0 => callResult = Null
      /\ Len(opps) > 0 =>
           /\ \E i \in 1..Len(opps) : opps[i] = callResult
           /\ \A i \in 1..Len(opps) :
                /\ CallRank(callResult.callType) <= CallRank(opps[i].callType)
                /\ opps[i].callType = callResult.callType =>
                     (callResult.playerId - d + 4) % 4 <= (opps[i].playerId - d + 4) % 4
      /\ \A perm \in Permutations(1..Len(opps)) :
           ResolveCallPriority(Reordered(opps, perm), d) = callResult

\* three calls of two classes were listed lowest class first, and the call
\* returned is neither the first nor the last of the list
C11_Witness ==
  /\ lastOp.op = "resolveCallPriority"
  /\ Len(callArgs.opportunities) = 3
  /\ callArgs.opportunities[1].callType = PUNG
  /\ callArgs.opportunities[2].callType = KONG
  /\ callArgs.opportunities[3].callType = KONG
  /\ callResult = callArgs.opportunities[2]
  /\ callResult # callArgs.opportunities[3]

(***************************************************************************)
(* GameProvider (hooks/GameContext.tsx): the engine driven by the          *)
(* dispatches of the board (components/GameBoard/GameBoard.tsx), by the    *)
(* timers the provider sets and by the decisions of the automated seats,   *)
(* which arrive after a thinking time.  A callback runs to its next await  *)
(* or to its end before any other callback or dispatch starts.             *)
(***************************************************************************)
\* the seat the board plays for (payload playerId: 0)
HumanId == 0

\* what follows a processTurn() that a timer started
NoFollowUp == "none"
ThenContinue == "continueGameFlow"
ThenCalls == "processCallOpportunities"

\* an entry of pending: a timer that has not fired or a decision awaited
Pending(kind, player, callType, tile, valid, then) ==
  [kind |-> kind, player |-> player, callType |-> callType, tile |-> tile,
   valid |-> valid, then |-> then]

\* setTimeout(async () => { await engine.processTurn(); ... }) with what
\* the callback does afterwards
ProcessTurnTimer(then) == Pending("processTurn", Undefined, NoCall, Null, FALSE, then)

\* setTimeout(() => continueGameFlowRef.current?.(), 300)
ContinueGameFlowTimer ==
  Pending("continueGameFlow", Undefined, NoCall, Null, FALSE, NoFollowUp)

\* setTimeout(() => processCallOpportunitiesRef.current?.(), 300)
ProcessCallOpportunitiesTimer ==
  Pending("processCallOpportunities", Undefined, NoCall, Null, FALSE, NoFollowUp)

\* the timer of 500 ms after the call of an automated seat
AiDiscardTimer(player) == Pending("aiDiscard", player, NoCall, Null, FALSE, NoFollowUp)

\* await aiPlayer.makeCallDecision(priorityCall, player.hand, player.exposedSets);
\* valid says whether the hand passed validates with the tile
CallDecision(opp, valid) ==
  Pending("callDecision", opp.playerId, opp.callType, opp.tile, valid, NoFollowUp)

\* await aiPlayer.makeTurnDecision(player.hand, player.exposedSets), with
\* the tile selectDiscard will return for the hand passed
TurnDecision(player, tile, then) ==
  Pending("turnDecision", player, NoCall, tile, FALSE, then)

\* how many timers and decisions may be pending at once
MaxPending == 2

Schedule(bag, entry) == bag (+) SetToBag({entry})
Take(bag, entry) == bag (-) SetToBag({entry})
Scheduled(entry) == BagIn(entry, pending)

\* the entries set stay within MaxPending
WithinMaxPending == BagCardinality(pending') <= MaxPending

\* the timer a callback sets after its processTurn() has returned
FollowUp(bag, then) ==
  IF then = ThenContinue THEN Schedule(bag, ContinueGameFlowTimer)
  ELSE IF then = ThenCalls THEN Schedule(bag, ProcessCallOpportunitiesTimer)
  ELSE bag

\* the last tile of the discard pile
LastDiscard == discardPile[Len(discardPile)]

\* GameEngine.hasCallOpportunities
HasCallOpportunities == turnPhase = CALL_OPPORTUNITY

\* GameEngine.getHumanCallOpportunities
GetHumanCallOpportunities ==
  IF turnPhase # CALL_OPPORTUNITY THEN << >>
  ELSE IF ~\E p \in DOMAIN players : players[p].isHuman THEN << >>
  ELSE IF discardPile = << >> THEN << >>
  ELSE SelectSeq(EvaluateCallOpportunity(LastDiscard, players),
                 LAMBDA opp : opp.playerId = (CHOOSE p \in DOMAIN players : players[p].isHuman))

\* GameEngine.processAICallDecisions up to its await: the call the
\* automated seats are asked about, Null when there is none
PriorityCall(opportunities) ==
  ResolveCallPriority(
    SelectSeq(opportunities,
              LAMBDA opp : HasPlayer(opp.playerId) /\ ~players[opp.playerId].isHuman),
    currentPlayer)

\* the tiles of its hand a seat may select for discard
SelectableTiles(playerId) ==
  IF ~HasPlayer(playerId) THEN {}
  ELSE {t \in DiscardInputs(playerId) : ValidateDiscard(t, players[playerId].hand)}

\* Strategy.decideCall for the decision awaited: a mahjong call is made
\* exactly when the hand validates with the tile; for kong and pung the
\* hand evaluation and the difficulty's random draw decide
ShouldCall(entry) ==
  IF entry.callType = MAHJONG THEN {entry.valid} ELSE BOOLEAN

\* the deals of the provider's games: deal 3
ProviderDeals == {Len(WallOrders)}

\* the mounting of the provider: new GameEngine(...), initializeGame()
ProviderMount(rand) ==
  /\ running = Idle
  /\ players = << >>
  /\ InitializeGame(rand)
  /\ UNCHANGED <<returned, provider>>

\* enhancedDispatch INITIALIZE_GAME: the New Game button, shown once the game
\* is over
DispatchInitializeGame(rand) ==
  /\ running = Idle
  /\ players # << >>
  /\ gameStatus # IN_PROGRESS
  /\ InitializeGame(rand)
  /\ pending' = Schedule(pending, ProcessTurnTimer(NoFollowUp))
  /\ WithinMaxPending
  /\ UNCHANGED <<returned, running>>

\* enhancedDispatch DRAW_TILE, dispatched by the board's effect when it is
\* the human seat's turn to draw
DispatchDrawTile ==
  /\ running = Idle
  /\ players # << >>
  /\ currentPlayer = HumanId /\ turnPhase = DRAW /\ gameStatus = IN_PROGRESS
  /\ DrawTile(HumanId)
  /\ UNCHANGED <<returned, provider>>

\* enhancedDispatch DISCARD_TILE with a tile selected in the rack
DispatchDiscardTile(tile) ==
  /\ running = Idle
  /\ players # << >>
  /\ currentPlayer = HumanId /\ turnPhase = DISCARD
  /\ DiscardTile(HumanId, tile)
  /\ pending' = IF lastOp'.outcome # OK THEN pending
                ELSE IF turnPhase' = CALL_OPPORTUNITY
                THEN Schedule(pending, ProcessCallOpportunitiesTimer)
                ELSE Schedule(pending, ProcessTurnTimer(ThenContinue))
  /\ WithinMaxPending
  /\ UNCHANGED <<returned, running>>

\* enhancedDispatch CALL_TILE: the Pung and Kong buttons
DispatchCallTile(callType) ==
  /\ running = Idle
  /\ turnPhase = CALL_OPPORTUNITY
  /\ \E i \in 1..Len(GetHumanCallOpportunities) :
       GetHumanCallOpportunities[i].callType = callType
  /\ ProcessCall(HumanId, callType, LastDiscard)
  /\ UNCHANGED <<returned, provider>>

\* enhancedDispatch DECLARE_MAHJONG: the Mahjong! button, on the last discard
DispatchDeclareMahjong ==
  /\ running = Idle
  /\ turnPhase = CALL_OPPORTUNITY
  /\ \E i \in 1..Len(GetHumanCallOpportunities) :
       GetHumanCallOpportunities[i].callType = MAHJONG
  /\ DeclareMahjong(HumanId, <<LastDiscard>>)
  /\ UNCHANGED <<returned, provider>>

\* enhancedDispatch DECLARE_MAHJONG without a tile, after the human seat's draw
DispatchDeclareSelfDrawn ==
  /\ running = Idle
  /\ players # << >>
  /\ currentPlayer = HumanId /\ turnPhase = DISCARD /\ gameStatus = IN_PROGRESS
  /\ DeclareMahjong(HumanId, << >>)
  /\ UNCHANGED <<returned, provider>>

\* enhancedDispatch DECLINE_CALL: the Pass / Continue Game button, shown
\* whenever the phase is call_opportunity
DispatchDeclineCall ==
  /\ running = Idle
  /\ turnPhase = CALL_OPPORTUNITY
  /\ DeclineCallOpportunities
  /\ pending' = Schedule(pending, ProcessTurnTimer(ThenCalls))
  /\ WithinMaxPending
  /\ UNCHANGED <<returned, running>>

\* engine.processTurn() as far as its first await, called by a callback
\* whose other pending entries are bag and which goes on as then says.
\* processAITurn ends the game on an exhausted wall; otherwise it draws, and
\* unless the draw returned null or completed the hand it awaits the
\* discard decision.
ProcessTurn(bag, then) ==
  IF ~HasPlayer(currentPlayer)
  THEN Throw("processTurn", GAME_STATE_ERROR) /\ pending' = bag /\ UNCHANGED running
  ELSE IF \/ gameStatus # IN_PROGRESS
          \/ turnPhase # DRAW
          \/ players[currentPlayer].isHuman
  THEN /\ lastOp' = Op("processTurn", OK)
       /\ UNCHANGED game
       /\ pending' = FollowUp(bag, then)
       /\ UNCHANGED running
  ELSE IF IsWallExhausted
  THEN /\ EndGame(Undefined)
       /\ lastOp' = Op("processTurn", OK)
       /\ UNCHANGED <<players, wallOrder, drawnCount, stateWall, discardPile, nextId>>
       /\ pending' = FollowUp(bag, then)
       /\ UNCHANGED running
  ELSE /\ DrawTile(currentPlayer)
       /\ IF /\ lastOp'.outcome = OK
             /\ ~ValidateHand(cardConfig, players'[currentPlayer].hand,
                              players'[currentPlayer].exposedSets).isValid
          THEN /\ \E tile \in {players'[currentPlayer].hand[i] :
                                 i \in {i \in {1, Len(players'[currentPlayer].hand)} :
                                          \/ i = Len(players'[currentPlayer].hand)
                                          \/ GetRemainingCount(wall) - 1 < FreeChoiceWindow}} :
                    pending' = Schedule(bag, TurnDecision(currentPlayer, tile, then))
               /\ UNCHANGED running
          ELSE /\ pending' = bag
               /\ running' = [at |-> "drawn", player |-> currentPlayer, then |-> then]

\* a faulty processAITurn that does not look at the hand after its draw
AfterDrawNoDeclare ==
  /\ running # Idle
  /\ running.at = "drawn"
  /\ lastOp' = Op("processTurn", OK)
  /\ pending' = FollowUp(pending, running.then)
  /\ running' = Idle
  /\ WithinMaxPending
  /\ UNCHANGED <<game, returned>>

\* processAITurn after its draw: endGame() when the draw returned null,
\* declareMahjong(player.id) when the hand validates
AfterDraw ==
  /\ running # Idle
  /\ running.at = "drawn"
  /\ IF lastOp.outcome = RETURNED_NULL
     THEN /\ EndGame(Undefined)
          /\ lastOp' = Op("processTurn", OK)
          /\ UNCHANGED <<players, wallOrder, drawnCount, stateWall, discardPile, nextId>>
     ELSE DeclareMahjong(running.player, << >>)
  /\ pending' = FollowUp(pending, running.then)
  /\ running' = Idle
  /\ WithinMaxPending
  /\ UNCHANGED returned

\* a timer set for processTurn() fires
ProcessTurnCallback(then) ==
  /\ running = Idle
  /\ Scheduled(ProcessTurnTimer(then))
  /\ ProcessTurn(Take(pending, ProcessTurnTimer(then)), then)
  /\ WithinMaxPending
  /\ UNCHANGED returned

\* continueGameFlow
ContinueGameFlow ==
  /\ running = Idle
  /\ Scheduled(ContinueGameFlowTimer)
  /\ IF /\ turnPhase = DRAW
        /\ HasPlayer(currentPlayer)
        /\ ~players[currentPlayer].isHuman
     THEN ProcessTurn(Take(pending, ContinueGameFlowTimer), ThenContinue)
     ELSE /\ lastOp' = Op("continueGameFlow", OK)
          /\ UNCHANGED <<game, running>>
          /\ pending' = IF turnPhase = CALL_OPPORTUNITY
                        THEN Schedule(Take(pending, ContinueGameFlowTimer),
                                      ProcessCallOpportunitiesTimer)
                        ELSE Take(pending, ContinueGameFlowTimer)
  /\ WithinMaxPending
  /\ UNCHANGED returned

\* a faulty processCallOpportunities that declines the calls and sets no
\* timer for the next turn
NoAiCallNoTimer(bag) ==
  IF Len(GetHumanCallOpportunities) = 0
  THEN /\ DeclineCallOpportunities
       /\ pending' = bag
  ELSE /\ lastOp' = Op("processCallOpportunities", "waiting")
       /\ UNCHANGED game
       /\ pending' = bag

\* processCallOpportunities when no automated seat calls: without a call
\* opportunity of the human seat the calls are declined and the next turn is
\* started; with one the provider waits for the board
NoAiCall(bag) ==
  IF Len(GetHumanCallOpportunities) = 0
  THEN /\ DeclineCallOpportunities
       /\ pending' = Schedule(bag, ProcessTurnTimer(ThenContinue))
  ELSE /\ lastOp' = Op("processCallOpportunities", "waiting")
       /\ UNCHANGED game
       /\ pending' = bag

\* processCallOpportunities as far as the await of processAICallDecisions
ProcessCallOpportunities ==
  /\ running = Idle
  /\ Scheduled(ProcessCallOpportunitiesTimer)
  /\ IF ~HasCallOpportunities
     THEN /\ lastOp' = Op("processCallOpportunities", "ignored")
          /\ UNCHANGED game
          /\ pending' = Take(pending, ProcessCallOpportunitiesTimer)
     ELSE \E call \in {PriorityCall(EvaluateCallOpportunity(LastDiscard, players))} :
            IF call = Null
            THEN NoAiCall(Take(pending, ProcessCallOpportunitiesTimer))
            ELSE /\ lastOp' = Op("processCallOpportunities", "awaiting")
                 /\ UNCHANGED game
                 /\ pending' =
                      Schedule(Take(pending, ProcessCallOpportunitiesTimer),
                               CallDecision(call,
                                 /\ call.callType = MAHJONG
                                 /\ ValidateHand(cardConfig,
                                      Append(players[call.playerId].hand, call.tile),
                                      players[call.playerId].exposedSets).isValid))
  /\ WithinMaxPending
  /\ UNCHANGED <<returned, running>>

\* processCallOpportunities from the return of processAICallDecisions on:
\* the call decided on is applied with engine.processCall, and when that
\* throws the catch block runs
CallDecided(entry) ==
  /\ running = Idle
  /\ Scheduled(entry)
  /\ entry.kind = "callDecision"
  /\ \E shouldCall \in ShouldCall(entry) :
       IF ~shouldCall
       THEN NoAiCall(Take(pending, entry)) /\ UNCHANGED running
       ELSE /\ ProcessCall(entry.player, entry.callType, entry.tile)
            /\ IF lastOp'.outcome # OK
               THEN /\ pending' = Take(pending, entry)
                    /\ running' = [at |-> "catch", player |-> entry.player,
                                   then |-> NoFollowUp]
               ELSE /\ pending' = IF entry.callType = MAHJONG THEN Take(pending, entry)
                                  ELSE Schedule(Take(pending, entry),
                                                AiDiscardTimer(entry.player))
                    /\ UNCHANGED running
  /\ WithinMaxPending
  /\ UNCHANGED returned

\* the catch block of processCallOpportunities: decline, then the next turn
Fallback ==
  /\ running # Idle
  /\ running.at = "catch"
  /\ DeclineCallOpportunities
  /\ pending' = Schedule(pending, ProcessTurnTimer(ThenCalls))
  /\ running' = Idle
  /\ WithinMaxPending
  /\ UNCHANGED returned

\* the timer after the call of an automated seat fires: the seat is asked
\* for its discard.  The timer is never set (AiDiscardNeverSet): two
\* automated seats at least hold 13 tiles at every discard, so the call
\* resolveCallPriority picks among theirs is a mahjong call.
AiDiscardCallback(entry) ==
  /\ running = Idle
  /\ Scheduled(entry)
  /\ entry.kind = "aiDiscard"
  /\ IF HasPlayer(entry.player)
     THEN \E tile \in (IF SelectableTiles(entry.player) = {} THEN {Null}
                       ELSE SelectableTiles(entry.player)) :
            pending' = Schedule(Take(pending, entry),
                                TurnDecision(entry.player, tile, ThenContinue))
     ELSE pending' = Take(pending, entry)
  /\ lastOp' = Op("makeTurnDecision", "awaiting")
  /\ WithinMaxPending
  /\ UNCHANGED <<game, returned, running>>

\* the discard decision of an automated seat arrives: discardTile, and
\* unless it throws the callback goes on
TurnDecided(entry) ==
  /\ running = Idle
  /\ Scheduled(entry)
  /\ entry.kind = "turnDecision"
  /\ DiscardTile(entry.player, entry.tile)
  /\ pending' = IF lastOp'.outcome = OK THEN FollowUp(Take(pending, entry), entry.then)
                ELSE Take(pending, entry)
  /\ WithinMaxPending
  /\ UNCHANGED <<returned, running>>

NextProvider ==
  \/ \E rand \in ProviderDeals : ProviderMount(rand)
  \/ \E rand \in ProviderDeals : DispatchInitializeGame(rand)
  \/ DispatchDrawTile
  \/ \E tile \in SelectableTiles(HumanId) : DispatchDiscardTile(tile)
  \/ \E callType \in {PUNG, KONG} : DispatchCallTile(callType)
  \/ DispatchDeclareMahjong
  \/ DispatchDeclareSelfDrawn
  \/ DispatchDeclineCall
  \/ \E then \in {NoFollowUp, ThenContinue, ThenCalls} : ProcessTurnCallback(then)
  \/ AfterDraw
  \/ ContinueGameFlow
  \/ ProcessCallOpportunities
  \/ \E entry \in BagToSet(pending) : CallDecided(entry)
  \/ Fallback
  \/ \E entry \in BagToSet(pending) : TurnDecided(entry)

SpecProvider == Init /\ [][NextProvider]_vars

\* no automated seat is ever asked about a kong or a pung, so the timer for
\* its discard after a call is never set
AiDiscardNeverSet ==
  \A entry \in BagToSet(pending) :
    /\ entry.kind # "aiDiscard"
    /\ entry.kind = "callDecision" => entry.callType = MAHJONG

\* the decisions awaited
PendingDecisions ==
  {entry \in BagToSet(pending) : entry.kind \in {"callDecision", "turnDecision"}}

\* the call decisions awaited that will be decisions to call
CallingDecisions ==
  {entry \in BagToSet(pending) : entry.kind = "callDecision" /\ ShouldCall(entry) = {TRUE}}

\* the human seat has a call opportunity on the tile: it did not discard it
\* and is eligible for a call
HumanCouldCall(tile) ==
  /\ HasPlayer(HumanId)
  /\ \A i \in 1..Len(players[HumanId].discardedTiles) :
       players[HumanId].discardedTiles[i].id # tile.id
  /\ \E c \in CallTypes : Eligible(HumanId, c, tile)

\* this step applies a call of the human seat
HumanCallApplied ==
  /\ lastOp'.outcome = OK
  /\ \/ \E callType \in {PUNG, KONG} : DispatchCallTile(callType)
     \/ DispatchDeclareMahjong

\* C12: on a discard on which the human seat and an automated seat have a
\* call opportunity and the automated seat decides to call, no call of the
\* human seat is applied while the decision is awaited, and when the
\* decision arrives the automated seat's call is applied: the called tile
\* goes to that seat.
C12_AutomatedCallFirst ==
  [][\A entry \in CallingDecisions :
       HumanCouldCall(entry.tile) =>
         /\ ~HumanCallApplied
         /\ ~BagIn(entry, pending') =>
              /\ lastOp' = CallOp(entry.callType, OK)
              /\ \E i \in 1..Len(players'[entry.player].hand) :
                   players'[entry.player].hand[i].id = entry.tile.id]_vars

\* C13: while the decision of an automated seat on a discard is awaited no
\* operation changes the game, the step that applies the decision apart,
\* and at most one decision is awaited at any instant.
C13_AtomicCallResolution ==
  [][/\ \A entry \in BagToSet(pending) :
          (entry.kind = "callDecision" /\ BagIn(entry, pending')) => UNCHANGED game
     /\ Cardinality(PendingDecisions') <= 1]_vars

\* this step is a draw of seat p that leaves it with a hand that validates
DrewWinning(p) ==
  /\ lastOp' = Op("drawTile", OK)
  /\ currentPlayer = p
  /\ ValidateHand(cardConfig, players'[p].hand, players'[p].exposedSets).isValid

\* the human seat is to discard and holds a hand that validates
HumanHoldsWinningHand ==
  /\ HasPlayer(HumanId)
  /\ currentPlayer = HumanId /\ turnPhase = DISCARD /\ gameStatus = IN_PROGRESS
  /\ CheckWinCondition(HumanId)

\* C14: when an automated seat draws on its turn and its hand validates,
\* the callback that drew goes on at once to end the game with status WON
\* and that seat as winner, and nothing is discarded; when the human seat
\* draws a tile with which its hand validates the game stays IN_PROGRESS,
\* and while the seat holds that hand the game ends only by the seat's
\* declaration of mahjong.
C14_WinOnDraw ==
  [][/\ \A p \in PlayerIds \ {HumanId} :
          DrewWinning(p) => (running' # Idle /\ running'.at = "drawn" /\ running'.player = p)
     /\ (running # Idle /\ running.at = "drawn" /\ lastOp = Op("drawTile", OK)) =>
          /\ gameStatus' = WON /\ winnerId' = running.player /\ turnPhase' = GAME_OVER
          /\ discardPile' = discardPile
          /\ players'[running.player].hand = players[running.player].hand
     /\ DrewWinning(HumanId) => (gameStatus' = IN_PROGRESS /\ winnerId' = Undefined)
     /\ (HumanHoldsWinningHand /\ gameStatus' # IN_PROGRESS) =>
          /\ lastOp' = Op("declareMahjong", OK)
          /\ gameStatus' = WON /\ winnerId' = HumanId]_vars

\* an automated seat has won with the tile it drew
C14_Witness ==
  /\ gameStatus = WON
  /\ winnerId # HumanId
  /\ lastOp = Op("declareMahjong", OK)
  /\ running = Idle
  /\ Len(players[winnerId].hand) = HandSize
  /\ players[winnerId].hand[HandSize].type = JOKER

(***************************************************************************)
(* The engine with its queries: getState, checkWinCondition and            *)
(* handValidator.validateHand on a seat's arrays                           *)
(***************************************************************************)
\* a faulty validateHand that collects the tiles in the hand array it was
\* passed instead of a copy
ValidateHandLeavesShared(hand, exposedSets) ==
  [hand |-> hand \o SetTiles(exposedSets), exposedSets |-> exposedSets]

\* the arrays validateHand was passed, after the call: the tiles are
\* collected in allTiles, a new array ([...hand]), matchPattern removes tiles
\* from availableTiles, a new array again ([...tiles]), and nothing else is
\* written to
ValidateHandLeaves(hand, exposedSets) ==
  [hand |-> hand, exposedSets |-> exposedSets]

\* the object getState() returns: this.state
StateSnapshot ==
  [players |-> players, wall |-> stateWall, discardPile |-> discardPile,
   currentPlayer |-> currentPlayer, turnPhase |-> turnPhase,
   gameStatus |-> gameStatus, winnerId |-> winnerId]

\* engine.getState()
GetStateCall ==
  /\ callArgs' = << >>
  /\ callResult' = StateSnapshot
  /\ lastOp' = Op("getState", OK)
  /\ UNCHANGED <<game, provider>>

\* handValidator.validateHand(player.hand, player.exposedSets) on the arrays
\* of a seat, as checkWinCondition and declareMahjong call it
ValidateHandCall(name, playerId) ==
  /\ HasPlayer(playerId)
  /\ callArgs' = <<playerId>>
  /\ callResult' = ValidateHand(cardConfig, players[playerId].hand,
                                players[playerId].exposedSets).isValid
  /\ \E left \in {ValidateHandLeaves(players[playerId].hand, players[playerId].exposedSets)} :
       players' = [players EXCEPT ![playerId].hand = left.hand,
                                  ![playerId].exposedSets = left.exposedSets]
  /\ lastOp' = Op(name, OK)
  /\ UNCHANGED <<wallOrder, drawnCount, stateWall, discardPile, currentPlayer, turnPhase,
                 gameStatus, winnerId, nextId, provider>>

\* engine.checkWinCondition(playerId)
CheckWinConditionCall(playerId) ==
  IF ~HasPlayer(playerId)
  THEN /\ callArgs' = <<playerId>>
       /\ callResult' = FALSE
       /\ lastOp' = Op("checkWinCondition", OK)
       /\ UNCHANGED <<game, provider>>
  ELSE ValidateHandCall("checkWinCondition", playerId)

\* an operation of the engine; what the last query returned is forgotten
Forget == callArgs' = << >> /\ callResult' = << >> /\ UNCHANGED provider

NextWithQueries ==
  \/ (\E rand \in 1..Len(RandomSources) : InitializeGame(rand)) /\ Forget
  \/ (\E p \in PlayerIds : DrawTile(p)) /\ Forget
  \/ (\E p \in PlayerIds : \E t \in DiscardInputs(p) : DiscardTile(p, t)) /\ Forget
  \/ (\E p \in PlayerIds : \E c \in CallTypes : \E t \in CallInputs : ProcessCall(p, c, t)) /\ Forget
  \/ DeclineCallOpportunities /\ Forget
  \/ (\E p \in PlayerIds : DeclareMahjong(p, << >>)) /\ Forget
  \/ (\E p \in PlayerIds : \E t \in CallInputs : DeclareMahjong(p, <<t>>)) /\ Forget
  \/ GetStateCall
  \/ \E p \in PlayerIds : CheckWinConditionCall(p)
  \/ \E p \in PlayerIds : ValidateHandCall("validateHand", p)

SpecWithQueries == Init /\ [][NextWithQueries]_vars

MaxDrawCount == 3

\* wall.draw()
WallDrawCall ==
  /\ \E d \in {WallDraw(wall)} :
       /\ callResult' = d[1]
       /\ drawnCount' = d[2].drawnCount
  /\ callArgs' = << >>
  /\ lastOp' = Op("draw", OK)
  /\ UNCHANGED <<players, wallOrder, stateWall, discardPile, currentPlayer, turnPhase,
                 gameStatus, winnerId, nextId, provider>>

\* wall.drawMultiple(count)
WallDrawMultipleCall(count) ==
  /\ \E d \in {WallDrawMultiple(wall, count)} :
       /\ callResult' = d[1]
       /\ drawnCount' = d[2].drawnCount
  /\ callArgs' = <<count>>
  /\ lastOp' = Op("drawMultiple", OK)
  /\ UNCHANGED <<players, wallOrder, stateWall, discardPile, currentPlayer, turnPhase,
                 gameStatus, winnerId, nextId, provider>>

\* wall.shuffle(): the tiles in the order the random source gives
WallShuffleCall(rand) ==
  /\ wallOrder' = rand
  /\ callArgs' = << >>
  /\ callResult' = << >>
  /\ lastOp' = Op("shuffle", OK)
  /\ UNCHANGED <<players, drawnCount, stateWall, discardPile, currentPlayer, turnPhase,
                 gameStatus, winnerId, nextId, provider>>

\* wall.reset()
WallResetCall ==
  /\ drawnCount' = 0
  /\ callArgs' = << >>
  /\ callResult' = << >>
  /\ lastOp' = Op("reset", OK)
  /\ UNCHANGED <<players, wallOrder, stateWall, discardPile, currentPlayer, turnPhase,
                 gameStatus, winnerId, nextId, provider>>

NextWall ==
  \/ WallDrawCall
  \/ \E count \in 0..MaxDrawCount : WallDrawMultipleCall(count)
  \/ \E rand \in 1..Len(WallOrders) : WallShuffleCall(rand)
  \/ WallResetCall

SpecWall == Init /\ [][NextWall]_vars

\* Wall.getTotalCount
GetTotalCount(w) == Len(w.tiles)

\* C16: over any sequence of draw and drawMultiple calls on a wall, draw
\* returns the next tile and takes one off the remaining count while the
\* count is positive, returns null and changes nothing once the count is 0,
\* drawMultiple takes as many tiles as asked for or as remain, the cursor
\* never passes the end of the wall (the remaining count never goes below 0)
\* and the total count stays 144.
C16_WallDraws ==
  [][/\ lastOp'.op = "draw" =>
          IF GetRemainingCount(wall) > 0
          THEN /\ callResult' = wall.tiles[drawnCount + 1]
               /\ callResult' # Null
               /\ GetRemainingCount(wall') = GetRemainingCount(wall) - 1
          ELSE /\ callResult' = Null
               /\ UNCHANGED game
     /\ lastOp'.op = "drawMultiple" =>
          /\ Len(callResult') = Min(callArgs'[1], GetRemainingCount(wall))
          /\ GetRemainingCount(wall') = GetRemainingCount(wall) - Len(callResult')
     /\ drawnCount' <= GetTotalCount(wall')
     /\ GetTotalCount(wall') - drawnCount' = GetRemainingCount(wall')
     /\ GetTotalCount(wall') = 144]_vars

\* a draw on a wall with nothing left has returned null
C16_Witness ==
  /\ lastOp = Op("draw", OK)
  /\ callResult = Null
  /\ GetRemainingCount(wall) = 0
  /\ drawnCount = GetTotalCount(wall)

(***************************************************************************)
(* initializeGame from any state of the engine                             *)
(***************************************************************************)
\* the game as initializeGame leaves it
FreshGame ==
  /\ DOMAIN players = 0..3
  /\ \A p \in DOMAIN players :
       /\ players[p].id = p
       /\ Len(players[p].hand) = 13
       /\ \A i \in 1..Len(players[p].hand) : ~players[p].hand[i].isExposed
       /\ players[p].exposedSets = << >>
       /\ players[p].isHuman <=> p = 0
  /\ GetRemainingCount(wall) = 92
  /\ Len(stateWall) = 92
  /\ discardPile = << >>
  /\ currentPlayer = 0
  /\ turnPhase = DRAW
  /\ gameStatus = IN_PROGRESS
  /\ winnerId = Undefined

\* C17: after initializeGame, whatever the state it was called in (a game
\* in progress or over included), there are 4 seats with 13 concealed tiles
\* each and no exposed sets, seat 0 is the only human seat, the wall holds 92
\* tiles, the discard pile is empty, the current player is seat 0, the phase
\* is DRAW, the status IN_PROGRESS and no winner is recorded.
C17_InitializeGame ==
  [][lastOp' = Op("initializeGame", OK) => FreshGame']_vars

\* a game dealt from the second random source
C17_Witness ==
  /\ lastOp = Op("initializeGame", OK)
  /\ wallOrder = 2
  /\ FreshGame

(***************************************************************************)
(* AIPlayer (engine/ai/AIPlayer.ts) called on its own.  What a call of the *)
(* strategy comes to is an input: a value it returns or an exception.      *)
(***************************************************************************)
Returned(value) == [threw |-> FALSE, value |-> value]
Thrown(value) == [threw |-> TRUE, value |-> value]

\* a CallDecision
Decision(shouldCall, reason) == [shouldCall |-> shouldCall, reason |-> reason]

\* the hand of an automated seat as dealt from a random source, and the
\* first tile of the wall after the deal
DealtHand(rand, playerId) ==
  DealTiles([tiles |-> WallTiles(rand), drawnCount |-> 0])[1][playerId]
FirstWallTile(rand) == WallTiles(rand)[NumPlayers * DealSize + 1]

\* strategy.selectDiscard(hand, exposedSets): a tile of the hand, or an
\* exception
SelectDiscardOutcomes(hand) ==
  {Returned(hand[i]) : i \in 1..Len(hand)} \cup {Thrown(Null)}

\* strategy.decideCall(opportunity, hand, exposedSets): a decision, or an
\* exception
DecideCallOutcomes ==
  {Returned(Decision(b, "strategy")) : b \in BOOLEAN} \cup {Thrown(Decision(FALSE, "thrown"))}

\* a faulty selectDiscard() without the try/catch
AiSelectDiscardNoCatch(hand, exposedSets, outcome) == outcome

\* AIPlayer.selectDiscard, the strategy's call coming to outcome
AiSelectDiscard(hand, exposedSets, outcome) ==
  IF outcome.threw
  THEN Returned(IF hand = << >> THEN Null ELSE hand[1])
  ELSE Returned(outcome.value)

\* AIPlayer.evaluateCall, the strategy's call coming to outcome
AiEvaluateCall(opportunity, hand, exposedSets, outcome) ==
  IF outcome.threw
  THEN Returned(Decision(FALSE, "Error during call evaluation"))
  ELSE Returned(outcome.value)

\* the arguments of selectDiscard: the hand of an automated seat after its
\* first draw
SelectDiscardArgs ==
  {[fn |-> "selectDiscard", hand |-> Append(DealtHand(rand, p), FirstWallTile(rand)),
    exposedSets |-> << >>, outcome |-> o] :
     rand \in 1..Len(WallOrders), p \in PlayerIds \ {HumanId},
     o \in UNION {SelectDiscardOutcomes(Append(DealtHand(r, q), FirstWallTile(r))) :
                    r \in 1..Len(WallOrders), q \in PlayerIds \ {HumanId}}}

\* the arguments of evaluateCall: the hand of an automated seat as dealt and
\* an opportunity on the first tile of the wall
EvaluateCallArgs ==
  {[fn |-> "evaluateCall", opportunity |-> CallOpportunity(p, c, FirstWallTile(rand)),
    hand |-> DealtHand(rand, p), exposedSets |-> << >>, outcome |-> o] :
     rand \in 1..Len(WallOrders), p \in PlayerIds \ {HumanId}, c \in CallTypes,
     o \in DecideCallOutcomes}

InitAi ==
  /\ Constructed
  /\ callArgs \in
       {a \in SelectDiscardArgs :
          a.outcome.threw \/ \E i \in 1..Len(a.hand) : a.hand[i] = a.outcome.value}
       \cup EvaluateCallArgs
  /\ callResult = << >>
  /\ pending = EmptyBag
  /\ running = Idle

\* aiPlayer.selectDiscard(hand, exposedSets)
SelectDiscardCall ==
  /\ callArgs.fn = "selectDiscard"
  /\ callResult' = AiSelectDiscard(callArgs.hand, callArgs.exposedSets, callArgs.outcome)
  /\ lastOp' = Op("selectDiscard", OK)
  /\ UNCHANGED <<game, callArgs, provider>>

\* aiPlayer.evaluateCall(opportunity, hand, exposedSets)
EvaluateCallCall ==
  /\ callArgs.fn = "evaluateCall"
  /\ callResult' = AiEvaluateCall(callArgs.opportunity, callArgs.hand,
                                  callArgs.exposedSets, callArgs.outcome)
  /\ lastOp' = Op("evaluateCall", OK)
  /\ UNCHANGED <<game, callArgs, provider>>

NextAi ==
  \/ SelectDiscardCall
  \/ EvaluateCallCall

SpecAi == InitAi /\ [][NextAi]_vars

\* C18: selectDiscard and evaluateCall never propagate an exception: when
\* the strategy fails, selectDiscard returns the first tile of the hand and
\* evaluateCall a decision not to call; when it does not fail, they return
\* what the strategy returned.
C18_AiNeverThrows ==
  callResult # << >> =>
    /\ ~callResult.threw
    /\ (callArgs.outcome.threw /\ callArgs.fn = "selectDiscard") =>
         callResult.value = callArgs.hand[1]
    /\ (callArgs.outcome.threw /\ callArgs.fn = "evaluateCall") =>
         ~callResult.value.shouldCall
    /\ ~callArgs.outcome.threw => callResult.value = callArgs.outcome.value

\* selectDiscard has returned the first tile of the hand after the strategy
\* failed
C18_Witness ==
  /\ lastOp = Op("selectDiscard", OK)
  /\ callArgs.outcome.threw
  /\ callResult = Returned(callArgs.hand[1])

(***************************************************************************)
(* A HandValidator called on its own: validateHand(hand, exposedSets) for  *)
(* a card configuration of up to MaxPatterns patterns                      *)
(***************************************************************************)
MaxPatterns == 2

\* a pattern as all_pungs that takes jokers, worth more
PungsWithJokers ==
  HandPattern("pungs_with_jokers", 40,
    [k \in 1..Len(AllPungs.tiles) |-> [AllPungs.tiles[k] EXCEPT !.jokerAllowed = TRUE]])

\* a pattern of 13 tiles: all_pungs with a single tile in place of the pair
FourPungsAndOne ==
  HandPattern("four_pungs_and_one", 20,
    [k \in 1..Len(AllPungs.tiles) |->
       IF k = Len(AllPungs.tiles) THEN [AllPungs.tiles[k] EXCEPT !.count = 1]
       ELSE AllPungs.tiles[k]])

CardPatterns == {AllPungs, WithJokers, SequencePattern, PungsWithJokers, FourPungsAndOne}

\* the card configurations: every list of up to MaxPatterns patterns
CardConfigs ==
  {[year |-> cardConfig.year, version |-> cardConfig.version, patterns |-> ps] :
     ps \in UNION {[1..n -> CardPatterns] : n \in 0..MaxPatterns}}

\* the tiles of the wall after the deal that a hand is filled up with
ExtraTiles(rand) ==
  LET w == WallTiles(rand)
      first == NumPlayers * DealSize
  IN {<< >>} \cup {<<w[first + k]>> : k \in 1..HandSize}
            \cup {<<w[first + k], w[first + k + 1]>> : k \in 1..HandSize}

\* the arguments of validateHand: the tiles a seat holds, its hand as dealt
\* from a random source and none, one or two more tiles, the first exposed
\* of them in an exposed set
ValidateHandArgs(config, dealt, extra, exposed) ==
  [config |-> config,
   hand |-> SubSeq(dealt \o extra, exposed + 1, DealSize + Len(extra)),
   exposedSets |-> IF exposed = 0 THEN << >>
                   ELSE <<[type |-> PUNG, tiles |-> SubSeq(dealt, 1, exposed)]>>]

InitValidate ==
  /\ Constructed
  /\ \E rand \in 1..Len(WallOrders) :
       \E p \in PlayerIds, extra \in ExtraTiles(rand), exposed \in {0, PungSize} :
         \E dealt \in {DealtHand(rand, p)} :
           \E config \in CardConfigs :
             callArgs = ValidateHandArgs(config, dealt, extra, exposed)
  /\ callResult = << >>
  /\ pending = EmptyBag
  /\ running = Idle

\* handValidator.validateHand(hand, exposedSets)
ValidateHandAlone ==
  /\ callResult' = ValidateHand(callArgs.config, callArgs.hand, callArgs.exposedSets)
  /\ lastOp' = Op("validateHand", OK)
  /\ UNCHANGED <<game, callArgs, provider>>

NextValidate == ValidateHandAlone

SpecValidate == InitValidate /\ [][NextValidate]_vars

\* the number of tiles validateHand was passed, concealed and exposed
TilesPassed == Len(callArgs.hand) + Len(SetTiles(callArgs.exposedSets))

\* C19: validateHand answers invalid with the size error whenever the
\* concealed tiles and the tiles of the exposed sets are not 14 together,
\* whatever the patterns of the card.
C19_HandSize ==
  (callResult # << >> /\ TilesPassed # 14) =>
    /\ ~callResult.isValid
    /\ callResult.error = "Invalid hand size"

\* 13 tiles that match the card's first pattern have been refused
C19_Witness ==
  /\ callResult # << >>
  /\ TilesPassed = 13
  /\ callArgs.config.patterns # << >>
  /\ MatchPattern(AllTiles(callArgs.hand, callArgs.exposedSets), callArgs.config.patterns[1])
  /\ ~callResult.isValid
  /\ callResult.error = "Invalid hand size"

\* the positions of the patterns of the card that the tiles passed match
MatchingPatterns ==
  {k \in 1..Len(callArgs.config.patterns) :
     MatchPattern(AllTiles(callArgs.hand, callArgs.exposedSets), callArgs.config.patterns[k])}

\* C20: for 14 tiles that match one or more patterns of the card,
\* validateHand answers valid with the first of them in the order of the
\* card's list and the points of that pattern as the score; for 14 tiles
\* that match none it answers invalid.
C20_FirstMatchingPattern ==
  (callResult # << >> /\ TilesPassed = 14) =>
    \E matching \in {MatchingPatterns} :
      IF matching = {}
      THEN ~callResult.isValid
      ELSE /\ callResult.isValid
           /\ callResult.matchedPattern \in matching
           /\ \A k \in matching : callResult.matchedPattern <= k
           /\ callResult.score = callArgs.config.patterns[callResult.matchedPattern].points

\* a hand that matches both patterns of the card has been given the first
\* one, the one worth less
C20_Witness ==
  /\ callResult # << >>
  /\ TilesPassed = 14
  /\ MatchingPatterns = {1, 2}
  /\ callResult.isValid
  /\ callResult.matchedPattern = 1
  /\ callResult.score = callArgs.config.patterns[1].points
  /\ callArgs.config.patterns[1].points < callArgs.config.patterns[2].points

(***************************************************************************)
(* HandValidator.matchPattern called on its own, requirement by            *)
(* requirement, on 14 tiles as validateHand calls it                       *)
(***************************************************************************)
\* matchPattern's loop: for every requirement tried, in order, what
\* matchRequirement returned and the availableTiles array it left; the loop
\* ends at the first requirement that fails
RECURSIVE MatchSteps(_, _, _)
StepsAfter(r, reqs, k) ==
  IF r.matched THEN <<r>> \o MatchSteps(r.tiles, reqs, k + 1) ELSE <<r>>

MatchSteps(availableTiles, reqs, k) ==
  IF k > Len(reqs) THEN << >>
  ELSE StepsAfter(MatchRequirement(availableTiles, reqs[k]), reqs, k)

\* a pattern of 14 tiles: four character 1 (jokers allowed), a run of 1 to 9
\* in one suit and a red dragon
KongRunAndOne ==
  HandPattern("kong_run_and_one", 45,
    <<TileRequirement(CHARACTER, 4, FALSE, << <<1>> >>, << >>, TRUE),
      TileRequirement(SAME_SUIT, 9, TRUE, << >>, << <<1, 2, 3, 4, 5, 6, 7, 8, 9>> >>, TRUE),
      TileRequirement(DRAGON, 1, FALSE, << <<"Red">> >>, << >>, FALSE)>>)

\* three tiles alike of one suit, a run of nine in one suit and a pair of
\* green dragons
SuitPungRunPair ==
  HandPattern("suit_pung_run_pair", 50,
    <<TileRequirement(SAME_SUIT, 3, FALSE, << >>, << >>, FALSE),
      TileRequirement(SAME_SUIT, 9, TRUE, << >>, << <<1, 2, 3, 4, 5, 6, 7, 8, 9>> >>, TRUE),
      TileRequirement(DRAGON, 2, FALSE, << <<"Green">> >>, << >>, FALSE)>>)

\* the pattern with jokers not allowed at one requirement
Strict(pattern, slot) == [pattern EXCEPT !.tiles[slot].jokerAllowed = FALSE]

\* the patterns matchPattern is called with: the patterns of the cards, and
\* each of them with jokers not allowed at one of its requirements
MatchPatterns ==
  (CardPatterns \cup {KongRunAndOne, SuitPungRunPair})
  \cup {Strict(pattern, slot) : pattern \in {WithJokers, KongRunAndOne}, slot \in 1..3}

\* two character 1, two jokers, bamboo 1 to 9 and a red dragon, by the
\* positions of the tiles in the wall as created
KongRunHand ==
  [k \in 1..14 |->
     CreatedTile(<<37, 38, 137, 138, 1, 5, 9, 13, 17, 21, 25, 29, 33, 125>>[k])]

\* bamboo 1 to 9, three red dragons and two green dragons; the same with
\* three more bamboo 1 in front for the red dragons
RunHonorsHand ==
  [k \in 1..14 |->
     CreatedTile(<<1, 5, 9, 13, 17, 21, 25, 29, 33, 125, 126, 127, 129, 130>>[k])]

RunSuitHand ==
  [k \in 1..14 |->
     CreatedTile(<<2, 3, 4, 1, 5, 9, 13, 17, 21, 25, 29, 33, 129, 130>>[k])]

InitMatch ==
  /\ Constructed
  /\ \E pattern \in MatchPatterns :
       \/ \E rand \in 1..Len(WallOrders) :
            \E p \in PlayerIds, extra \in {e \in ExtraTiles(rand) : Len(e) = 1} :
              callArgs = [tiles |-> DealtHand(rand, p) \o extra, pattern |-> pattern]
       \/ \E tiles \in {KongRunHand, RunHonorsHand, RunSuitHand} :
            callArgs = [tiles |-> tiles, pattern |-> pattern]
  /\ callResult = << >>
  /\ pending = EmptyBag
  /\ running = Idle

\* matchPattern(tiles, pattern)
MatchPatternCall ==
  /\ callResult' = [matched |-> MatchPattern(callArgs.tiles, callArgs.pattern),
                    steps |-> MatchSteps(callArgs.tiles, callArgs.pattern.tiles, 1)]
  /\ lastOp' = Op("matchPattern", OK)
  /\ UNCHANGED <<game, callArgs, provider>>

NextMatch == MatchPatternCall

SpecMatch == InitMatch /\ [][NextMatch]_vars

\* the availableTiles array a requirement of the call was tried on
TilesBefore(slot) ==
  IF slot = 1 THEN callArgs.tiles ELSE callResult.steps[slot - 1].tiles

JokerCount(tiles) == Cardinality(JokerPositions(tiles))

\* the requirements tried that ask for 4 tiles of one value, allow jokers
\* and found 2 tiles of that value and 2 jokers or more
TwoRealTwoJokers ==
  {slot \in 1..Len(callResult.steps) :
     \E req \in {callArgs.pattern.tiles[slot]} :
       /\ ~req.sequence /\ req.count = 4 /\ req.jokerAllowed
       /\ req.specific # << >> /\ Len(req.specific[1]) = 1
       /\ Cardinality(MatchingTiles(TilesBefore(slot), req)) = 2
       /\ JokerCount(TilesBefore(slot)) >= 2}

\* C21: a requirement of 4 tiles of value X with jokerAllowed = true is
\* matched by 2 tiles of value X and 2 jokers, which it takes; the tiles of
\* a hand matched that way do not match the pattern with jokerAllowed =
\* false at that requirement.
C21_JokerSubstitution ==
  callResult # << >> =>
    \A slot \in TwoRealTwoJokers :
      /\ callResult.steps[slot].matched
      /\ Len(callResult.steps[slot].tiles) = Len(TilesBefore(slot)) - 4
      /\ JokerCount(callResult.steps[slot].tiles) = JokerCount(TilesBefore(slot)) - 2
      /\ callResult.matched => ~MatchPattern(callArgs.tiles, Strict(callArgs.pattern, slot))

\* the number of tiles a requirement asks for
RequiredTiles(req) ==
  IF req.sequence
  THEN (IF req.values = << >> THEN 0 ELSE DistinctCount(req.values[1]))
  ELSE req.count

\* C22: matchPattern returns true only if every requirement was satisfied
\* and took the tiles it asks for, jokers included, out of the tiles left by
\* the requirements before it, so that all the tiles passed are taken by
\* some requirement and none is left over or dropped.
C22_ExactConsumption ==
  (callResult # << >> /\ callResult.matched) =>
    /\ Len(callResult.steps) = Len(callArgs.pattern.tiles)
    /\ \A slot \in 1..Len(callResult.steps) :
         /\ callResult.steps[slot].matched
         /\ Len(TilesBefore(slot)) - Len(callResult.steps[slot].tiles)
              = RequiredTiles(callArgs.pattern.tiles[slot])
    /\ callResult.steps[Len(callResult.steps)].tiles = << >>

(***************************************************************************)
(* The places of the tiles during a game                                   *)
(***************************************************************************)
\* the tiles of the game, place after place: the undrawn wall, the hands,
\* the exposed sets and the discard pile
RECURSIVE SeatsTiles(_)
SeatsTiles(p) ==
  IF p = NumPlayers THEN << >>
  ELSE players[p].hand \o SetTiles(players[p].exposedSets) \o SeatsTiles(p + 1)

TilesInPlay == GetRemainingTiles(wall) \o SeatsTiles(0) \o discardPile

\* C23: every tile the wall created is, throughout a game, in exactly one
\* place (the undrawn wall, a hand, an exposed set or the discard pile), and
\* no other tile is: none is duplicated, destroyed or replaced by a tile
\* created later.
C23_TileIdentity ==
  players # << >> =>
    \E tiles \in {TilesInPlay} :
      /\ Len(tiles) = WallSize
      /\ {tiles[k].id : k \in 1..Len(tiles)} = 1..WallSize

(***************************************************************************)
(* RuleEngine.processCall(hand, discardedTile, callType) called on its own *)
(***************************************************************************)
\* the tiles a seat can be passed as a discard: the tiles of a deal that are
\* not in its hand, as far as the first tiles of the wall after the deal
DiscardsFor(rand, playerId) ==
  {WallTiles(rand)[k] : k \in (1..(NumPlayers * DealSize + HandSize))
                              \ ((playerId * DealSize + 1)..((playerId + 1) * DealSize))}

InitRuleCall ==
  /\ Constructed
  /\ \E rand \in 1..Len(WallOrders) :
       \E p \in PlayerIds, callType \in {PUNG, KONG} :
         \E tile \in DiscardsFor(rand, p) :
           callArgs = [hand |-> DealtHand(rand, p), discardedTile |-> tile,
                       callType |-> callType]
  /\ callResult = << >>
  /\ pending = EmptyBag
  /\ running = Idle

\* ruleEngine.processCall(hand, discardedTile, callType): callResult.hand is
\* the array passed as it is after the call
RuleProcessCallCall ==
  /\ callResult' = RuleProcessCall(callArgs.hand, callArgs.discardedTile,
                                   callArgs.callType, nextId)
  /\ lastOp' = CallOp(callArgs.callType, IF callResult'.ok THEN OK ELSE PLAIN_ERROR)
  /\ UNCHANGED <<game, callArgs, provider>>

NextRuleCall == RuleProcessCallCall

SpecRuleCall == InitRuleCall /\ [][NextRuleCall]_vars

\* tile t is of the type and value of the discard passed
LikeDiscard(t) ==
  /\ t.type = callArgs.discardedTile.type
  /\ t.value = callArgs.discardedTile.value

\* the positions of the hand passed whose tiles are gone after the call
TakenFromHand ==
  {i \in 1..Len(callArgs.hand) :
     \A j \in 1..Len(callResult.hand) : callResult.hand[j].id # callArgs.hand[i].id}

\* C24: processCall for a pung (kong) takes exactly 2 (3) tiles of the type
\* and value of the discard, none of them a joker, out of the hand, leaves
\* the other tiles as they were and returns a set of 3 (4) tiles of that
\* type and value, all exposed; with fewer such tiles in the hand it throws
\* and the hand is as it was.
C24_RuleProcessCall ==
  callResult # << >> =>
    \E needed \in {IF callArgs.callType = PUNG THEN 2 ELSE 3} :
      IF Cardinality({i \in 1..Len(callArgs.hand) :
                        callArgs.hand[i].type # JOKER /\ LikeDiscard(callArgs.hand[i])}) >= needed
      THEN /\ callResult.ok
           /\ Cardinality(TakenFromHand) = needed
           /\ \A i \in TakenFromHand :
                callArgs.hand[i].type # JOKER /\ LikeDiscard(callArgs.hand[i])
           /\ callResult.hand = FilterPositions(callArgs.hand,
                                                (1..Len(callArgs.hand)) \ TakenFromHand)
           /\ callResult.tileSet.type = callArgs.callType
           /\ Len(callResult.tileSet.tiles) = needed + 1
           /\ \A k \in 1..Len(callResult.tileSet.tiles) :
                LikeDiscard(callResult.tileSet.tiles[k]) /\ callResult.tileSet.tiles[k].isExposed
      ELSE /\ ~callResult.ok
           /\ callResult.hand = callArgs.hand

\* a pung of character 1 has been taken out of a hand that holds two of them
\* and jokers, and the jokers are still in the hand
C24_Witness ==
  /\ callResult # << >>
  /\ callResult.ok
  /\ callArgs.callType = PUNG
  /\ JokerCount(callArgs.hand) > 0
  /\ JokerCount(callResult.hand) = JokerCount(callArgs.hand)
  /\ Len(callResult.tileSet.tiles) = 3

(***************************************************************************)
(* HandEvaluator (engine/ai/HandEvaluator.ts).  The Map of tile counts is  *)
(* read off the array of tiles it is built from.                           *)
(***************************************************************************)
\* HandEvaluator.getTileKey: `${tile.type}-${tile.value}`
GetTileKey(type, value) == <<type, ToString(value)>>

\* tileCounts.get(key) || 0 for the counts of allTiles
TileCount(allTiles, key) ==
  Cardinality({i \in 1..Len(allTiles) :
                 GetTileKey(allTiles[i].type, allTiles[i].value) = key})

\* the joker count of evaluatePattern: the count under the key of a tile of
\* type joker and value 0
EvaluatorJokerCount(allTiles) == TileCount(allTiles, GetTileKey(JOKER, 0))

\* for (const value of values) count += tileCounts.get(key of type, value) || 0
RECURSIVE CountValues(_, _, _, _)
CountValues(allTiles, type, values, i) ==
  IF i > Len(values) THEN 0
  ELSE TileCount(allTiles, GetTileKey(type, values[i]))
         + CountValues(allTiles, type, values, i + 1)

\* HandEvaluator.countTilesOfType
CountTilesOfType(allTiles, tileType, values) ==
  IF Len(values) > 0 THEN CountValues(allTiles, tileType, values, 1)
  ELSE Cardinality({i \in 1..Len(allTiles) : allTiles[i].type = tileType})

\* specific || values || []
ValueList(req) ==
  IF req.specific # << >> THEN req.specific[1]
  ELSE IF req.values # << >> THEN req.values[1] ELSE << >>

Max3(a, b, c) == Max(a, Max(b, c))

\* HandEvaluator.countSequenceTiles
CountSequenceTiles(allTiles, req) ==
  IF req.values = << >> \/ Len(req.values[1]) = 0 THEN 0
  ELSE IF req.type = SAME_SUIT
  THEN Max3(CountValues(allTiles, BAMBOO, req.values[1], 1),
            CountValues(allTiles, CHARACTER, req.values[1], 1),
            CountValues(allTiles, DOT, req.values[1], 1))
  ELSE CountValues(allTiles, req.type, req.values[1], 1)

\* HandEvaluator.countMatchingTiles
CountMatchingTiles(allTiles, req) ==
  IF req.sequence THEN CountSequenceTiles(allTiles, req)
  ELSE IF req.type = ANY
  THEN Min(Cardinality({i \in 1..Len(allTiles) : allTiles[i].type # JOKER}), req.count)
  ELSE IF req.type = SAME_SUIT
  THEN Min(Max3(CountTilesOfType(allTiles, BAMBOO, ValueList(req)),
                CountTilesOfType(allTiles, CHARACTER, ValueList(req)),
                CountTilesOfType(allTiles, DOT, ValueList(req))), req.count)
  ELSE Min(CountTilesOfType(allTiles, req.type, ValueList(req)), req.count)

\* HandEvaluator.addUsefulTiles: the keys one requirement adds
UsefulKeys(req) ==
  IF req.type = ANY THEN {}
  ELSE IF req.type = SAME_SUIT
  THEN {GetTileKey(suitType, ValueList(req)[i]) :
          suitType \in {BAMBOO, CHARACTER, DOT}, i \in 1..Len(ValueList(req))}
  ELSE {GetTileKey(req.type, ValueList(req)[i]) : i \in 1..Len(ValueList(req))}

\* the sums of the loop of evaluatePattern over the requirements
RECURSIVE TotalRequired(_, _)
TotalRequired(reqs, i) ==
  IF i > Len(reqs) THEN 0 ELSE reqs[i].count + TotalRequired(reqs, i + 1)

RECURSIVE TotalMatched(_, _, _)
TotalMatched(allTiles, reqs, i) ==
  IF i > Len(reqs) THEN 0
  ELSE CountMatchingTiles(allTiles, reqs[i]) + TotalMatched(allTiles, reqs, i + 1)

\* Math.round(totalMatched / totalRequired * 100) for the counts of a
\* pattern with requirements
ProximityScore(totalMatched, totalRequired) ==
  (200 * totalMatched + totalRequired) \div (2 * totalRequired)

\* the HandEvaluation of evaluatePattern; totalMatched, totalRequired and
\* jokerCount, its local variables, are kept beside the fields it returns
Evaluation(pattern, totalMatched, totalRequired, jokerCount) ==
  [pattern |-> pattern,
   tilesNeeded |-> Max(0, totalRequired - totalMatched - jokerCount),
   proximityScore |-> ProximityScore(totalMatched, totalRequired),
   usefulTiles |-> UNION {UsefulKeys(pattern.tiles[i]) : i \in 1..Len(pattern.tiles)},
   totalMatched |-> totalMatched, totalRequired |-> totalRequired,
   jokerCount |-> jokerCount]

\* HandEvaluator.evaluatePattern
EvaluatePattern(hand, exposedSets, pattern) ==
  Evaluation(pattern, TotalMatched(AllTiles(hand, exposedSets), pattern.tiles, 1),
             TotalRequired(pattern.tiles, 1),
             EvaluatorJokerCount(AllTiles(hand, exposedSets)))

\* Array.prototype.sort with a comparator that orders the elements: the
\* elements by the comparator, those it holds equal in the order they had
SortRank(arr, Compare(_, _), i) ==
  Cardinality({j \in 1..Len(arr) :
                 \/ Compare(arr[j], arr[i]) < 0
                 \/ Compare(arr[j], arr[i]) = 0 /\ j < i})

Sort(arr, Compare(_, _)) ==
  [k \in 1..Len(arr) |->
     arr[CHOOSE i \in 1..Len(arr) : SortRank(arr, Compare, i) = k - 1]]

\* a faulty comparator: the tiles needed alone
CompareEvaluationsByNeed(a, b) == a.tilesNeeded - b.tilesNeeded

\* the comparator of evaluateHand
CompareEvaluations(a, b) ==
  IF a.tilesNeeded # b.tilesNeeded THEN a.tilesNeeded - b.tilesNeeded
  ELSE b.proximityScore - a.proximityScore

\* HandEvaluator.evaluateHand
EvaluateHand(config, hand, exposedSets) ==
  Sort([k \in 1..Len(config.patterns) |->
          EvaluatePattern(hand, exposedSets, config.patterns[k])],
       CompareEvaluations)

\* the scores of evaluateTileUsefulness are kept in tenths: weight * 10 is
\* proximityScore / 10
JokerScore == 1000
CriticalBonus == 200
CriticalTilesNeeded == 2

\* the evaluations a tile is among the useful tiles of
UsefulFor(tile, handEvaluations) ==
  {k \in 1..Len(handEvaluations) :
     GetTileKey(tile.type, tile.value) \in handEvaluations[k].usefulTiles}

RECURSIVE TileScore(_, _, _)
TileScore(handEvaluations, useful, k) ==
  IF k > Len(handEvaluations) THEN 0
  ELSE (IF k \in useful
        THEN handEvaluations[k].proximityScore
               + (IF handEvaluations[k].tilesNeeded <= CriticalTilesNeeded
                  THEN CriticalBonus ELSE 0)
        ELSE 0) + TileScore(handEvaluations, useful, k + 1)

\* the TileUsefulness of one tile of the hand
Usefulness(tile, handEvaluations, useful) ==
  IF tile.type = JOKER
  THEN [tile |-> tile, score |-> JokerScore, patternCount |-> Len(handEvaluations),
        isCritical |-> TRUE]
  ELSE [tile |-> tile, score |-> TileScore(handEvaluations, useful, 1),
        patternCount |-> Cardinality(useful),
        isCritical |-> \E k \in useful :
                         handEvaluations[k].tilesNeeded <= CriticalTilesNeeded]

\* the comparator of evaluateTileUsefulness
CompareUsefulness(a, b) == b.score - a.score

\* the entries of the Map tileScores, in the order of the hand
TileScores(hand, handEvaluations) ==
  [i \in 1..Len(hand) |-> Usefulness(hand[i], handEvaluations,
                                    UsefulFor(hand[i], handEvaluations))]

\* HandEvaluator.evaluateTileUsefulness
EvaluateTileUsefulness(config, hand, exposedSets) ==
  Sort(TileScores(hand, EvaluateHand(config, hand, exposedSets)), CompareUsefulness)

\* the last of the sorted array, or hand[0]
LeastUseful(hand, usefulness) ==
  IF Len(usefulness) = 0 THEN (IF hand = << >> THEN Null ELSE hand[1])
  ELSE usefulness[Len(usefulness)].tile

\* HandEvaluator.findBestDiscard
FindBestDiscard(config, hand, exposedSets) ==
  LeastUseful(hand, EvaluateTileUsefulness(config, hand, exposedSets))

(***************************************************************************)
(* The evaluator alone: evaluateHand, evaluateTileUsefulness and            *)
(* findBestDiscard applied to the tiles of a seat under a card.            *)
(***************************************************************************)
\* a run of nine in one suit, three red dragons and a pair of an honor
RunAndHonors(id, type, value) ==
  HandPattern(id, 40,
    <<TileRequirement(SAME_SUIT, 9, TRUE, << >>, << <<1, 2, 3, 4, 5, 6, 7, 8, 9>> >>, TRUE),
      TileRequirement(DRAGON, 3, FALSE, << <<"Red">> >>, << >>, FALSE),
      TileRequirement(type, 2, FALSE, << <<value>> >>, << >>, FALSE)>>)

Card(patterns) ==
  [year |-> cardConfig.year, version |-> cardConfig.version, patterns |-> patterns]

\* a card of four patterns that differ in their pair
RunCard ==
  Card(<<RunAndHonors("run_green", DRAGON, "Green"),
         RunAndHonors("run_white", DRAGON, "White"),
         RunAndHonors("run_east", WIND, "E"),
         RunAndHonors("run_south", WIND, "S")>>)

\* the cards the evaluator is constructed with
EvaluatorCards ==
  {Card(<<first, second>>) : first, second \in CardPatterns}
  \cup {Card(<< >>), cardConfig, RunCard, Card(<<KongRunAndOne, SequencePattern>>)}

\* bamboo 1 to 9, three red dragons and two jokers
RunDragonHand ==
  [k \in 1..14 |->
     CreatedTile(<<1, 5, 9, 13, 17, 21, 25, 29, 33, 125, 126, 127, 137, 138>>[k])]

\* four character 1, character 2 to 9 and two red dragons
CharacterHand ==
  [k \in 1..14 |->
     CreatedTile(<<37, 38, 39, 40, 41, 45, 49, 53, 57, 61, 65, 69, 125, 126>>[k])]

EvaluatorArgs(config, hand, exposedSets) ==
  [config |-> config, hand |-> hand, exposedSets |-> exposedSets]

\* the arguments: the tiles of a seat as for validateHand, with none or one
\* more tile than dealt, or one of the hands above
InitEvaluator ==
  /\ Constructed
  /\ \E config \in EvaluatorCards :
       \/ \E rand \in 1..Len(WallOrders) :
            \E p \in PlayerIds, extra \in {e \in ExtraTiles(rand) : Len(e) <= 1},
               exposed \in {0, PungSize} :
              \E a \in {ValidateHandArgs(config, DealtHand(rand, p), extra, exposed)} :
                callArgs = EvaluatorArgs(a.config, a.hand, a.exposedSets)
       \/ \E hand \in {KongRunHand, RunDragonHand, CharacterHand} :
            callArgs = EvaluatorArgs(config, hand, << >>)
  /\ callResult = << >>
  /\ pending = EmptyBag
  /\ running = Idle

EvaluateHandCall ==
  /\ callResult' = [evaluations |->
                      EvaluateHand(callArgs.config, callArgs.hand, callArgs.exposedSets)]
  /\ lastOp' = Op("evaluateHand", OK)
  /\ UNCHANGED <<game, callArgs, provider>>

EvaluateTileUsefulnessCall ==
  /\ callResult' = [usefulness |->
                      EvaluateTileUsefulness(callArgs.config, callArgs.hand,
                                             callArgs.exposedSets)]
  /\ lastOp' = Op("evaluateTileUsefulness", OK)
  /\ UNCHANGED <<game, callArgs, provider>>

\* findBestDiscard; the array it sorted is kept beside the tile it returns
FindBestDiscardCall ==
  /\ \E usefulness \in {EvaluateTileUsefulness(callArgs.config, callArgs.hand,
                                                 callArgs.exposedSets)} :
       callResult' = [tile |-> LeastUseful(callArgs.hand, usefulness),
                      usefulness |-> usefulness]
  /\ lastOp' = Op("findBestDiscard", OK)
  /\ UNCHANGED <<game, callArgs, provider>>

NextEvaluator ==
  \/ EvaluateHandCall
  \/ EvaluateTileUsefulnessCall
  \/ FindBestDiscardCall

SpecEvaluator == InitEvaluator /\ [][NextEvaluator]_vars

\* the evaluations in the order given are those of the patterns, one each
OnePerPattern(evaluations, patterns) ==
  /\ Len(evaluations) = Len(patterns)
  /\ \A k \in 1..Len(patterns) :
       Cardinality({i \in 1..Len(evaluations) : evaluations[i].pattern = patterns[k]})
         = Cardinality({i \in 1..Len(patterns) : patterns[i] = patterns[k]})

InEvaluationOrder(a, b) ==
  \/ a.tilesNeeded < b.tilesNeeded
  \/ a.tilesNeeded = b.tilesNeeded /\ a.proximityScore >= b.proximityScore

\* C25: evaluateHand returns one evaluation for each pattern of the card,
\* in ascending order of tilesNeeded and, where tilesNeeded is equal, in
\* descending order of proximityScore
C25_EvaluateHandOrder ==
  lastOp.op = "evaluateHand" =>
    /\ OnePerPattern(callResult.evaluations, callArgs.config.patterns)
    /\ \A i, j \in 1..Len(callResult.evaluations) :
         i < j => InEvaluationOrder(callResult.evaluations[i], callResult.evaluations[j])

\* two patterns that need the same number of tiles, returned in the order of
\* their proximity scores, the reverse of their order on the card
C25_Witness ==
  /\ lastOp.op = "evaluateHand"
  /\ Len(callResult.evaluations) = 2
  /\ callResult.evaluations[1].tilesNeeded = callResult.evaluations[2].tilesNeeded
  /\ callResult.evaluations[1].proximityScore > callResult.evaluations[2].proximityScore
  /\ callResult.evaluations[1].pattern = callArgs.config.patterns[2]
  /\ callResult.evaluations[1].pattern # callArgs.config.patterns[1]

\* C26: the tilesNeeded of every evaluation is the tiles required less the
\* tiles matched less the jokers among the hand and the exposed sets, and
\* zero where that is negative
C26_TilesNeeded ==
  lastOp.op = "evaluateHand" =>
    \A i \in 1..Len(callResult.evaluations) :
      callResult.evaluations[i].tilesNeeded
        = Max(0, callResult.evaluations[i].totalRequired
                   - callResult.evaluations[i].totalMatched
                   - JokerCount(AllTiles(callArgs.hand, callArgs.exposedSets)))

\* the tiles one requirement adds to totalMatched are at most its count
WithinCount(allTiles, reqs) ==
  \A k \in 1..Len(reqs) : CountMatchingTiles(allTiles, reqs[k]) <= reqs[k].count

\* C27: in every evaluation each requirement adds at most its count to
\* totalMatched, totalMatched is at most totalRequired and the proximity
\* score is between 0 and 100
C27_MatchedWithinRequired ==
  lastOp.op = "evaluateHand" =>
    \A i \in 1..Len(callResult.evaluations) :
      /\ WithinCount(AllTiles(callArgs.hand, callArgs.exposedSets),
                     callResult.evaluations[i].pattern.tiles)
      /\ callResult.evaluations[i].totalMatched <= callResult.evaluations[i].totalRequired
      /\ callResult.evaluations[i].proximityScore \in 0..100

\* every joker scores 100 and is critical, and the scores descend
JokersFirst(usefulness) ==
  /\ \A i \in 1..Len(usefulness) :
       usefulness[i].tile.type = JOKER =>
         usefulness[i].score = JokerScore /\ usefulness[i].isCritical
  /\ \A i, j \in 1..Len(usefulness) :
       i < j => usefulness[i].score >= usefulness[j].score

\* the tile is one of the lowest score, and a joker only when the hand has
\* nothing else
BestDiscard(tile, hand, usefulness) ==
  /\ \E i \in 1..Len(usefulness) :
       /\ usefulness[i].tile = tile
       /\ \A j \in 1..Len(usefulness) : usefulness[i].score <= usefulness[j].score
  /\ \E i \in 1..Len(hand) : hand[i] = tile
  /\ (\E i \in 1..Len(hand) : hand[i].type # JOKER) => tile.type # JOKER

\* C28: evaluateTileUsefulness scores every joker 100 and critical and
\* returns the tiles by descending score; findBestDiscard returns a tile of
\* the lowest score, and no joker while the hand has a tile that is none
C28_BestDiscard ==
  /\ lastOp.op = "evaluateTileUsefulness" => JokersFirst(callResult.usefulness)
  /\ lastOp.op = "findBestDiscard" =>
       /\ JokersFirst(callResult.usefulness)
       /\ BestDiscard(callResult.tile, callArgs.hand, callResult.usefulness)

(***************************************************************************)
(* Strategy (engine/ai/Strategy.ts).  A value of Math.random() is r /      *)
(* RandomSteps for an r of RandomValues.                                   *)
(***************************************************************************)
EASY == "easy"
MEDIUM == "medium"
HARD == "hard"
Difficulties == {EASY, MEDIUM, HARD}

RandomSteps == 8
RandomValues == 0..(RandomSteps - 1)

\* Math.floor(Math.random() * n)
RandomIndex(r, n) == (r * n) \div RandomSteps

\* Math.random() < 0.5, Math.random() < 0.2, Math.random() > 0.3
LessThanHalf(r) == 2 * r < RandomSteps
LessThanFifth(r) == 5 * r < RandomSteps
MoreThanThreeTenths(r) == 10 * r > 3 * RandomSteps

MediumChoices == 3

\* a faulty applyDifficultyRandomness() that picks among the whole array
ApplyDifficultyRandomnessAnyTile(difficulty, maxIndex, r1, r2) ==
  IF difficulty = EASY
  THEN (IF LessThanHalf(r1) THEN RandomIndex(r2, maxIndex) ELSE 0)
  ELSE IF difficulty = MEDIUM
  THEN (IF LessThanFifth(r1) THEN RandomIndex(r2, maxIndex) ELSE 0)
  ELSE 0

\* Strategy.applyDifficultyRandomness; r1 and r2 are the values Math.random()
\* returns to it
ApplyDifficultyRandomness(difficulty, maxIndex, r1, r2) ==
  IF difficulty = EASY
  THEN (IF LessThanHalf(r1) THEN RandomIndex(r2, (maxIndex + 1) \div 2) ELSE 0)
  ELSE IF difficulty = MEDIUM
  THEN (IF LessThanFifth(r1) THEN RandomIndex(r2, Min(MediumChoices, maxIndex)) ELSE 0)
  ELSE 0

\* Strategy.selectDiscard, from the array evaluateTileUsefulness returned to
\* it: the tile at the index counted from the least useful, or hand[0]
StrategySelectDiscard(hand, usefulness, difficulty, r1, r2) ==
  IF Len(usefulness) = 0 THEN (IF hand = << >> THEN Null ELSE hand[1])
  ELSE usefulness[Len(usefulness)
                    - ApplyDifficultyRandomness(difficulty, Len(usefulness), r1, r2)].tile

\* a CallDecision of the strategy; callType is NoCall where it is left out
CallDecisionOf(shouldCall, callType, reason) ==
  [shouldCall |-> shouldCall, callType |-> callType, reason |-> reason]

\* a faulty decideMahjongCall() that trusts the opportunity
DecideMahjongCallUnchecked(config, tile, hand, exposedSets) ==
  CallDecisionOf(TRUE, MAHJONG, "Valid winning hand")

\* Strategy.decideMahjongCall
DecideMahjongCall(config, tile, hand, exposedSets) ==
  IF ValidateHand(config, Append(hand, tile), exposedSets).isValid
  THEN CallDecisionOf(TRUE, MAHJONG, "Valid winning hand")
  ELSE CallDecisionOf(FALSE, NoCall, "Hand does not form a valid winning pattern")

\* hand.filter(t => !(t.type === tile.type && t.value === tile.value))
SimulatedHand(hand, tile) ==
  FilterPositions(hand, {i \in 1..Len(hand) :
                           ~(hand[i].type = tile.type /\ SameValue(hand[i].value, tile.value))})

\* [...exposedSets, {type, tiles: [tile, ...]}]
SimulatedSets(exposedSets, callType, tile) ==
  Append(exposedSets,
         [type |-> callType,
          tiles |-> [k \in 1..(IF callType = KONG THEN KongSize ELSE PungSize) |-> tile]])

\* the decision of decideKongCall and decidePungCall from the evaluations of
\* the hand and of the simulated hand; r is the value of Math.random()
DecideFromEvaluations(difficulty, callType, currentEval, callEval, r) ==
  IF Len(callEval) > 0 /\ Len(currentEval) > 0
  THEN IF callEval[1].tilesNeeded <= currentEval[1].tilesNeeded
       THEN IF difficulty = EASY /\ ~MoreThanThreeTenths(r)
            THEN CallDecisionOf(FALSE, callType, "does not improve position significantly")
            ELSE CallDecisionOf(TRUE, callType, "improves position")
       ELSE CallDecisionOf(FALSE, callType, "does not improve position significantly")
  ELSE CallDecisionOf(FALSE, NoCall, "Unable to evaluate benefit")

\* Strategy.decideKongCall
DecideKongCall(config, difficulty, tile, hand, exposedSets, r) ==
  DecideFromEvaluations(difficulty, KONG, EvaluateHand(config, hand, exposedSets),
    EvaluateHand(config, SimulatedHand(hand, tile), SimulatedSets(exposedSets, KONG, tile)),
    r)

\* Strategy.decidePungCall
DecidePungCall(config, difficulty, tile, hand, exposedSets, r) ==
  DecideFromEvaluations(difficulty, PUNG, EvaluateHand(config, hand, exposedSets),
    EvaluateHand(config, SimulatedHand(hand, tile), SimulatedSets(exposedSets, PUNG, tile)),
    r)

\* Strategy.decideCall
DecideCall(config, difficulty, opportunity, hand, exposedSets, r) ==
  IF opportunity.callType = MAHJONG
  THEN DecideMahjongCall(config, opportunity.tile, hand, exposedSets)
  ELSE IF opportunity.callType = KONG
  THEN DecideKongCall(config, difficulty, opportunity.tile, hand, exposedSets, r)
  ELSE IF opportunity.callType = PUNG
  THEN DecidePungCall(config, difficulty, opportunity.tile, hand, exposedSets, r)
  ELSE CallDecisionOf(FALSE, NoCall, "Unknown call type")

(***************************************************************************)
(* The strategy alone: selectDiscard on the hand of a seat that has drawn, *)
(* decideCall on the opportunities the rule engine lists for a seat.       *)
(***************************************************************************)
StrategyCards ==
  {cardConfig, RunCard, Card(<<KongRunAndOne, SequencePattern>>), Card(<< >>)}

\* the hands to discard from: a dealt hand and the first tile of the wall,
\* whole or with its first three tiles exposed, and the hands above
DiscardHands ==
  {ValidateHandArgs(cardConfig, DealtHand(rand, p), <<FirstWallTile(rand)>>, exposed) :
     rand \in 1..Len(WallOrders), p \in PlayerIds, exposed \in {0, PungSize}}
  \cup {ValidateHandArgs(cardConfig, hand, << >>, 0) :
          hand \in {SubSeq(KongRunHand, 1, DealSize), SubSeq(RunDragonHand, 1, DealSize)}}

\* the values of Math.random() for a discard, which HARD does not call
RandomsFor(difficulty) == IF difficulty = HARD THEN {0} ELSE RandomValues

InitStrategy ==
  /\ Constructed
  /\ \E config \in StrategyCards, difficulty \in Difficulties :
       \/ \E seat \in DiscardHands, r1 \in RandomsFor(difficulty),
               r2 \in RandomsFor(difficulty) :
            callArgs = [fn |-> "selectDiscard", config |-> config,
                        difficulty |-> difficulty, hand |-> seat.hand,
                        exposedSets |-> seat.exposedSets, r1 |-> r1, r2 |-> r2]
       \/ \E rand \in 1..Len(WallOrders) :
            \E p \in PlayerIds :
              \E tile \in DiscardsFor(rand, p) :
                \E opportunities \in {PlayerOpportunities(tile, p, DealtHand(rand, p), << >>)} :
                  \E k \in 1..Len(opportunities) :
                    \E r1 \in (IF opportunities[k].callType # MAHJONG /\ difficulty = EASY
                               THEN RandomValues ELSE {0}) :
                      callArgs = [fn |-> "decideCall", config |-> config,
                                  difficulty |-> difficulty,
                                  opportunity |-> opportunities[k],
                                  hand |-> DealtHand(rand, p), exposedSets |-> << >>,
                                  r1 |-> r1]
  /\ callResult = << >>
  /\ pending = EmptyBag
  /\ running = Idle

\* strategy.selectDiscard(hand, exposedSets); the array of usefulness it
\* worked on is kept beside the tile it returns
StrategySelectDiscardCall ==
  /\ callArgs.fn = "selectDiscard"
  /\ \E usefulness \in {EvaluateTileUsefulness(callArgs.config, callArgs.hand,
                                                 callArgs.exposedSets)} :
       callResult' = [tile |-> StrategySelectDiscard(callArgs.hand, usefulness,
                                 callArgs.difficulty, callArgs.r1, callArgs.r2),
                      usefulness |-> usefulness]
  /\ lastOp' = Op("strategy.selectDiscard", OK)
  /\ UNCHANGED <<game, callArgs, provider>>

\* strategy.decideCall(opportunity, hand, exposedSets)
DecideCallCall ==
  /\ callArgs.fn = "decideCall"
  /\ callResult' = DecideCall(callArgs.config, callArgs.difficulty, callArgs.opportunity,
                              callArgs.hand, callArgs.exposedSets, callArgs.r1)
  /\ lastOp' = Op("strategy.decideCall", OK)
  /\ UNCHANGED <<game, callArgs, provider>>

NextStrategy ==
  \/ StrategySelectDiscardCall
  \/ DecideCallCall

SpecStrategy == InitStrategy /\ [][NextStrategy]_vars

\* the tile is among the last `choices' of the array
AmongLeastUseful(tile, usefulness, choices) ==
  \E k \in 0..(choices - 1) :
    k < Len(usefulness) /\ usefulness[Len(usefulness) - k].tile = tile

\* C29: selectDiscard returns a tile of the hand: at HARD the least useful
\* tile, the one findBestDiscard returns; at MEDIUM one of the three least
\* useful; at EASY one of the least useful half of the hand (the middle tile
\* of a hand of odd size counted with it)
C29_SelectDiscard ==
  lastOp.op = "strategy.selectDiscard" =>
    /\ \E i \in 1..Len(callArgs.hand) : callArgs.hand[i] = callResult.tile
    /\ callArgs.difficulty = HARD =>
         callResult.tile = FindBestDiscard(callArgs.config, callArgs.hand,
                                           callArgs.exposedSets)
    /\ callArgs.difficulty = MEDIUM =>
         AmongLeastUseful(callResult.tile, callResult.usefulness, 3)
    /\ callArgs.difficulty = EASY =>
         AmongLeastUseful(callResult.tile, callResult.usefulness,
                          (Len(callArgs.hand) + 1) \div 2)

\* at EASY the seventh tile from the end of a hand of 14 is returned, a tile
\* of a higher score than the least useful one
C29_Witness ==
  /\ lastOp.op = "strategy.selectDiscard"
  /\ callArgs.difficulty = EASY
  /\ Len(callArgs.hand) = HandSize
  /\ callResult.tile = callResult.usefulness[HandSize - 6].tile
  /\ callResult.usefulness[HandSize - 6].score > callResult.usefulness[HandSize].score

\* the tiles needed for the best pattern, evaluateHand(...)[0].tilesNeeded
BestTilesNeeded(evaluations) == evaluations[1].tilesNeeded

\* the tiles needed for the best pattern by the seat that has taken the call
NeededAfterCall(config, called, exposedSets) ==
  BestTilesNeeded(EvaluateHand(config, called.hand, Append(exposedSets, called.tileSet)))

\* C30: decideCall accepts a mahjong opportunity exactly when the hand and
\* the discarded tile are a valid hand for the hand validator; it accepts a
\* kong or pung only when the seat would need no more tiles for its best
\* pattern after the call than before
C30_DecideCall ==
  lastOp.op = "strategy.decideCall" =>
    IF callArgs.opportunity.callType = MAHJONG
    THEN callResult.shouldCall
           = ValidateHand(callArgs.config, Append(callArgs.hand, callArgs.opportunity.tile),
                          callArgs.exposedSets).isValid
    ELSE callResult.shouldCall =>
           NeededAfterCall(callArgs.config,
                           RuleProcessCall(callArgs.hand, callArgs.opportunity.tile,
                                           callArgs.opportunity.callType, nextId),
                           callArgs.exposedSets)
             <= BestTilesNeeded(EvaluateHand(callArgs.config, callArgs.hand,
                                             callArgs.exposedSets))

\* a mahjong opportunity accepted: the discarded tile completes the hand
C30_Witness ==
  /\ lastOp.op = "strategy.decideCall"
  /\ callArgs.opportunity.callType = MAHJONG
  /\ callResult.shouldCall
  /\ callResult.callType = MAHJONG
  /\ ValidateHand(callArgs.config, Append(callArgs.hand, callArgs.opportunity.tile),
                  callArgs.exposedSets).isValid

(***************************************************************************)
(* Requirements of type same_suit that are no sequence (SpecMatch)         *)
(***************************************************************************)
NumberedSuits == {BAMBOO, CHARACTER, DOT}

\* the tiles of the array that are not in the array left, by their ids
TakenTiles(before, after) ==
  {before[i] : i \in {j \in 1..Len(before) :
                        \A k \in 1..Len(after) : after[k].id # before[j].id}}

\* the tiles of one suit that a requirement could take, value list applied
SuitMatches(tiles, req, suit) ==
  Cardinality({i \in MatchingTiles(tiles, req) : tiles[i].type = suit})

\* the tiles are of one numbered suit, and of one with the most tiles that
\* match the requirement
OfBestSuit(taken, tiles, req) ==
  \E suit \in NumberedSuits :
    /\ \A t \in taken : t.type = JOKER \/ t.type = suit
    /\ \A other \in NumberedSuits :
         SuitMatches(tiles, req, suit) >= SuitMatches(tiles, req, other)

\* C31: a requirement of type same_suit that is no sequence is satisfied
\* only by tiles of one numbered suit, a suit with the most matching tiles;
\* winds, dragons and flowers are never taken for it
C31_SameSuit ==
  callResult # << >> =>
    \A slot \in 1..Len(callResult.steps) :
      \E req \in {callArgs.pattern.tiles[slot]} :
        (req.type = SAME_SUIT /\ ~req.sequence /\ callResult.steps[slot].matched) =>
          OfBestSuit(TakenTiles(TilesBefore(slot), callResult.steps[slot].tiles),
                     TilesBefore(slot), req)

(***************************************************************************)
(* The turn after a pung or kong call (Spec)                               *)
(***************************************************************************)
SetCalled(op) == op = CallOp(PUNG, OK) \/ op = CallOp(KONG, OK)

\* the seat whose exposed sets grew in the step is the current player, in
\* phase DISCARD, and nothing was drawn
CallerToDiscard ==
  /\ \E p \in PlayerIds :
       Len(players'[p].exposedSets) = Len(players[p].exposedSets) + 1
  /\ \A p \in PlayerIds :
       Len(players'[p].exposedSets) > Len(players[p].exposedSets) => currentPlayer' = p
  /\ turnPhase' = DISCARD
  /\ drawnCount' = drawnCount

\* in phase DISCARD, unless a new game is started, nothing is drawn and the
\* current player alone discards
DiscardsWithoutDrawing ==
  (turnPhase = DISCARD /\ lastOp'.op # "initializeGame") =>
    /\ lastOp' # Op("drawTile", OK)
    /\ drawnCount' = drawnCount
    /\ lastOp' = Op("discardTile", OK) =>
         Len(players'[currentPlayer].hand) = Len(players[currentPlayer].hand) - 1

TurnPassed == currentPlayer' = (currentPlayer + 1) % NumPlayers /\ turnPhase' = DRAW

\* the discard of the seat that has just called, when nobody can call it
CallerDiscarded ==
  SetCalled(lastOp) /\ lastOp' = Op("discardTile", OK) /\ turnPhase' # CALL_OPPORTUNITY

WallEnded ==
  /\ GetRemainingCount(wall) = 0
  /\ turnPhase' = GAME_OVER /\ gameStatus' = DRAW_GAME
  /\ currentPlayer' = currentPlayer

\* C32: after a pung or kong call the caller is the current player, in phase
\* DISCARD, and draws nothing before it discards; when its discard is
\* resolved without a further call, at once or by declineCallOpportunities,
\* the turn passes to the seat after the caller in phase DRAW, whatever seat
\* had discarded the called tile (advanceTurn ends the game with status DRAW
\* instead when the wall is empty, as after every discard)
C32_TurnAfterCall ==
  [][/\ SetCalled(lastOp') => CallerToDiscard
     /\ DiscardsWithoutDrawing
     /\ CallerDiscarded => (TurnPassed \/ WallEnded)
     /\ lastOp' = Op("declineCallOpportunities", OK) => (TurnPassed \/ WallEnded)]_vars

\* the only seat that has called in the game has discarded, the calls on
\* its discard were declined and the seat after it is to draw; that seat has discarded once more than the seat
\* after itself, which the call skipped
C32_Witness ==
  /\ lastOp = Op("declineCallOpportunities", OK)
  /\ turnPhase = DRAW
  /\ currentPlayer < NumPlayers - 1
  /\ \E p \in PlayerIds :
       /\ currentPlayer = (p + 1) % NumPlayers
       /\ Len(players[p].exposedSets) = 1
       /\ \A q \in PlayerIds \ {p} : players[q].exposedSets = << >>
       /\ Len(players[p].hand) + Len(SetTiles(players[p].exposedSets)) = DealSize
  /\ Len(players[currentPlayer].discardedTiles)
       = Len(players[currentPlayer + 1].discardedTiles) + 1

(***************************************************************************)
(* The terminal state (Spec)                                               *)
(***************************************************************************)
GameOver == gameStatus = WON \/ gameStatus = DRAW_GAME

\* the hands and the exposed sets of the seats
HandsAndSets(seats) ==
  [p \in DOMAIN seats |-> <<seats[p].hand, seats[p].exposedSets>>]

\* C33: once the status is WON or DRAW, no operation other than
\* initializeGame changes the status, the winner, a hand, an exposed set or
\* the discard pile
C33_TerminalState ==
  [][(lastOp'.op # "initializeGame" /\ GameOver) =>
       /\ gameStatus' = gameStatus
       /\ winnerId' = winnerId
       /\ HandsAndSets(players') = HandsAndSets(players)
       /\ discardPile' = discardPile]_vars

(***************************************************************************)
(* The tile of a call (Spec)                                               *)
(***************************************************************************)
\* the step made seat p take the tile t: into a new exposed set and out of
\* the discard pile, or into its hand
TookTile(p, t) ==
  \/ /\ Len(players'[p].exposedSets) = Len(players[p].exposedSets) + 1
     /\ \A i \in 1..Len(discardPile') : discardPile'[i].id # t.id
  \/ players'[p].hand = Append(players[p].hand, t)

\* t is the last tile seat d has discarded and lies on top of the discard pile
LastDiscardBy(d, t) ==
  /\ players[d].discardedTiles # << >>
  /\ players[d].discardedTiles[Len(players[d].discardedTiles)].id = t.id
  /\ discardPile[Len(discardPile)].id = t.id

\* seat p is eligible for the call that has succeeded on t
EligibleFor(p, op, t) ==
  IF op.callType = PUNG \/ op.callType = KONG
  THEN Eligible(p, op.callType, t)
  ELSE Wins(p, <<t>>)

\* C34: a processCall, or a declareMahjong with a tile, that succeeds is on
\* the last tile another seat has discarded, still on top of the discard
\* pile, by a seat eligible for the call; one that does not succeed leaves
\* the state unchanged
C34_CallOnLastDiscard ==
  [][/\ (lastOp'.op \in {"processCall", "declareMahjong"} /\ lastOp'.outcome = OK) =>
          \A p \in PlayerIds : \A t \in CallInputs :
            TookTile(p, t) =>
              /\ \E d \in PlayerIds \ {p} : LastDiscardBy(d, t)
              /\ EligibleFor(p, lastOp', t)
     /\ (lastOp'.op \in {"processCall", "declareMahjong"} /\ lastOp'.outcome # OK) =>
          UNCHANGED game]_vars

(***************************************************************************)
(* The call of an automated seat that would win (SpecProvider)             *)
(***************************************************************************)
\* an automated seat has a mahjong opportunity on the last discard and its
\* hand validates with that tile, so that its strategy accepts the call
AiWouldCallMahjong ==
  \E opps \in {EvaluateCallOpportunity(LastDiscard, players)} :
    \E i \in 1..Len(opps) :
      /\ opps[i].callType = MAHJONG
      /\ ~players[opps[i].playerId].isHuman
      /\ Wins(opps[i].playerId, <<LastDiscard>>)

\* C35: when processCallOpportunities asks the automated seats about a
\* discard on which one of them has a mahjong call that its strategy
\* accepts, the decision it awaits from processAICallDecisions is a call on
\* that discard, not null
C35_AiCallReturned ==
  [][(/\ lastOp' = Op("processCallOpportunities", "awaiting")
      /\ turnPhase = CALL_OPPORTUNITY
      /\ AiWouldCallMahjong) =>
       \E entry \in BagToSet(pending') :
         /\ entry.kind = "callDecision"
         /\ entry.tile = LastDiscard
         /\ TRUE \in ShouldCall(entry)]_vars

(***************************************************************************)
(* The mahjong opportunity of a seat that would win (SpecOpportunities)    *)
(***************************************************************************)
\* opps holds a mahjong opportunity of seat q
HasMahjongOpportunity(opps, q) ==
  \E i \in 1..Len(opps) : opps[i].playerId = q /\ opps[i].callType = MAHJONG

\* a seat's 13 tiles before it calls a pung of bamboo 5: bamboo 5 5, 6 6 6,
\* 7 7 7, 8 8 8, 9 and a north wind, by the positions of the tiles in the
\* wall as created
BeforePung ==
  [k \in 1..13 |->
     CreatedTile(<<17, 18, 21, 22, 23, 25, 26, 27, 29, 30, 31, 33, 109>>[k])]

\* the seat after its call on the third bamboo 5, as GameEngine.processCall
\* leaves it, and its discard of the tile with id discarded
CalledSeat(id, discarded) ==
  LET r == RuleProcessCall(BeforePung, CreatedTile(19), PUNG, WallSize + 1)
  IN [id |-> id, isHuman |-> id = 0,
      hand |-> RemoveById(r.hand, discarded),
      exposedSets |-> <<r.tileSet>>,
      discardedTiles |-> <<CreatedTile(discarded)>>]

\* the concealed hands of the other seats: character 1 1 1 1 2 2 2 2 3 3 3 3
\* 4, thirteen dot tiles, thirteen winds and dragons
ConcealedHands ==
  <<[k \in 1..13 |-> CreatedTile(36 + k)],
    [k \in 1..13 |-> CreatedTile(72 + k)],
    [k \in 1..13 |-> CreatedTile(109 + k)]>>

\* the seats: seat q has called, the others hold the concealed hands in order
SeatsWithCaller(q, discarded) ==
  [p \in PlayerIds |->
     IF p = q THEN CalledSeat(p, discarded)
     ELSE NewPlayer(p, p = 0, ConcealedHands[(IF p < q THEN p ELSE p - 1) + 1])]

\* the tiles discarded: bamboo 9, bamboo 5, character 4, dot 4, a dragon, a
\* joker; none is in a hand above
OpportunityDiscards == {CreatedTile(i) : i \in {20, 34, 35, 50, 51, 86, 123, 137}}

InitOpportunities ==
  /\ Constructed
  /\ \E q \in PlayerIds, d \in PlayerIds, discarded \in {33, 109} :
       \E tile \in OpportunityDiscards :
         callArgs = [discardedTile |-> tile, currentPlayer |-> d,
                     players |-> SeatsWithCaller(q, discarded)]
  /\ callResult = << >>
  /\ pending = EmptyBag
  /\ running = Idle

\* GameEngine.evaluateCallOpportunity(discardedTile) in a game with the
\* players and the current player of callArgs
EvaluateCallOpportunityCall ==
  /\ callResult' = GetCallOpportunities(callArgs.discardedTile, callArgs.currentPlayer,
                                        callArgs.players, << >>)
  /\ lastOp' = Op("evaluateCallOpportunity", OK)
  /\ UNCHANGED <<game, callArgs, provider>>

NextOpportunities == EvaluateCallOpportunityCall

SpecOpportunities == InitOpportunities /\ [][NextOpportunities]_vars

\* seat q, with its exposed sets, wins with the discard
WinsWithDiscard(q) ==
  ValidateHand(cardConfig, Append(callArgs.players[q].hand, callArgs.discardedTile),
               callArgs.players[q].exposedSets).isValid

\* C36: every seat other than the discarder whose concealed tiles and exposed
\* sets validate with the discarded tile has a MAHJONG opportunity among the
\* call opportunities the engine computes for the discard
C36_WinningSeatCanCall ==
  lastOp = Op("evaluateCallOpportunity", OK) =>
    \A q \in PlayerIds \ {callArgs.currentPlayer} :
      WinsWithDiscard(q) => HasMahjongOpportunity(callResult, q)

(***************************************************************************)
(* The orchestration with its timers in the order of their delays.  The    *)
(* timer INITIALIZE_GAME sets runs out after 100 ms; every other timer is  *)
(* set for 300 ms or 500 ms and every decision of an automated seat takes  *)
(* 500 ms at least, so none of them comes before it.  The continuation of  *)
(* a callback that awaits nothing but the engine is not delayed.           *)
(***************************************************************************)
\* the deals of the orchestrated games: deal 2 runs to the end of the wall,
\* deal 3 has the human seat call a tile
OrchestrationDeals == {2, Len(WallOrders)}

\* setTimeout(async () => { await engine.processTurn(); }, 100)
NewGameTimer == ProcessTurnTimer(NoFollowUp)

\* the timer of INITIALIZE_GAME has fired
NewGameTimerFired == ~Scheduled(NewGameTimer)

\* a timer for processTurn() fires, the one of 100 ms first
ProcessTurnTimerFires ==
  \E then \in {NoFollowUp, ThenContinue, ThenCalls} :
    /\ then # NoFollowUp => NewGameTimerFired
    /\ ProcessTurnCallback(then)

ContinueGameFlowFires == NewGameTimerFired /\ ContinueGameFlow

ProcessCallOpportunitiesFires == NewGameTimerFired /\ ProcessCallOpportunities

\* the decision of an automated seat arrives
DecisionArrives ==
  /\ NewGameTimerFired
  /\ \E entry \in BagToSet(pending) : CallDecided(entry) \/ TurnDecided(entry)

\* the callback that awaited the engine goes on
CallbackContinues == AfterDraw \/ Fallback

\* the human seat answers the call it is offered
HumanAnswersCall ==
  /\ Len(GetHumanCallOpportunities) > 0
  /\ \/ DispatchDeclineCall
     \/ \E callType \in {PUNG, KONG} : DispatchCallTile(callType)
     \/ DispatchDeclareMahjong

NextOrchestration ==
  \/ \E rand \in OrchestrationDeals : ProviderMount(rand)
  \/ \E rand \in OrchestrationDeals : DispatchInitializeGame(rand)
  \/ DispatchDrawTile
  \/ \E tile \in SelectableTiles(HumanId) : DispatchDiscardTile(tile)
  \/ \E callType \in {PUNG, KONG} : DispatchCallTile(callType)
  \/ DispatchDeclareMahjong
  \/ DispatchDeclareSelfDrawn
  \/ DispatchDeclineCall
  \/ ProcessTurnTimerFires
  \/ ContinueGameFlowFires
  \/ ProcessCallOpportunitiesFires
  \/ DecisionArrives
  \/ CallbackContinues

\* the human seat is due to act: to draw, to discard or to answer a call
HumanToAct ==
  \/ currentPlayer = HumanId /\ turnPhase \in {DRAW, DISCARD}
  \/ turnPhase = CALL_OPPORTUNITY /\ Len(GetHumanCallOpportunities) > 0

\* the guard of the answer of the human seat, which sets a timer
HumanToAnswer ==
  /\ players # << >>
  /\ running = Idle
  /\ turnPhase = CALL_OPPORTUNITY
  /\ Len(GetHumanCallOpportunities) > 0
  /\ BagCardinality(pending) < MaxPending

\* the guards of the callbacks
TimerDue(entry) ==
  /\ running = Idle
  /\ Scheduled(entry)
  /\ entry # NewGameTimer => NewGameTimerFired

DecisionDue ==
  /\ running = Idle
  /\ NewGameTimerFired
  /\ \E entry \in BagToSet(pending) : entry.kind \in {"callDecision", "turnDecision"}

\* Weak fairness of the steps the event loop and the human seat take.  The
\* board draws for the human seat in an effect and the claim assumes that the
\* seat discards and answers; a timer that has run out fires, a decision
\* awaited arrives and a callback that awaited the engine goes on.  For the
\* callbacks the enabling condition is written out: it is the guard above.
OrchestrationFairness ==
  /\ WF_vars(DispatchDrawTile)
  /\ WF_vars(\E tile \in SelectableTiles(HumanId) : DispatchDiscardTile(tile))
  /\ []<>(~HumanToAnswer) \/ []<><<HumanAnswersCall>>_vars
  /\ []<>(running = Idle) \/ []<><<CallbackContinues>>_vars
  /\ \/ []<>(~\E then \in {NoFollowUp, ThenContinue, ThenCalls} : TimerDue(ProcessTurnTimer(then)))
     \/ []<><<ProcessTurnTimerFires>>_vars
  /\ []<>(~TimerDue(ContinueGameFlowTimer)) \/ []<><<ContinueGameFlowFires>>_vars
  /\ \/ []<>(~TimerDue(ProcessCallOpportunitiesTimer))
     \/ []<><<ProcessCallOpportunitiesFires>>_vars
  /\ []<>(~DecisionDue) \/ []<><<DecisionArrives>>_vars

SpecOrchestration == Init /\ [][NextOrchestration]_vars /\ OrchestrationFairness

\* no automated seat is due to draw while nothing is scheduled
NoStalledDraw ==
  ~(/\ gameStatus = IN_PROGRESS
    /\ turnPhase = DRAW
    /\ HasPlayer(currentPlayer)
    /\ ~players[currentPlayer].isHuman
    /\ pending = EmptyBag
    /\ running = Idle)

\* while the game is in progress with nothing scheduled, the human seat is
\* due to act
HumanOrCallbackDue ==
  (/\ players # << >>
   /\ gameStatus = IN_PROGRESS
   /\ pending = EmptyBag
   /\ running = Idle) => HumanToAct

\* the draws after the deal stay within the wall
DrawsWithinWall ==
  players # << >> => drawnCount - NumPlayers * DealSize <= WallSize - NumPlayers * DealSize

C38_DrawPhaseHasTiles ==
  /\ []((players # << >> /\ gameStatus = IN_PROGRESS /\ turnPhase = DRAW)
          => GetRemainingCount(wall) > 0)
  /\ [][(/\ lastOp'.op = "drawTile"
         /\ lastOp'.outcome \in {OK, RETURNED_NULL}
         /\ gameStatus = IN_PROGRESS)
        => /\ lastOp'.outcome = OK
           /\ Len(players'[currentPlayer].hand) = Len(players[currentPlayer].hand) + 1]_vars

\* the last tile of the wall has been drawn by the seat whose turn it was
C38_Witness ==
  /\ lastOp = Op("drawTile", OK)
  /\ gameStatus = IN_PROGRESS
  /\ turnPhase = DISCARD
  /\ GetRemainingCount(wall) = 0

\* C39: the phase is GAME_OVER exactly when the status is WON or DRAW, a
\* winner, one of the seats, is recorded exactly when the status is WON, and
\* the current player is one of the seats 0..3.
C39_StatusPhaseWinner ==
  /\ turnPhase = GAME_OVER <=> gameStatus \in {WON, DRAW_GAME}
  /\ winnerId # Undefined <=> gameStatus = WON
  /\ winnerId # Undefined => winnerId \in PlayerIds
  /\ currentPlayer \in 0 .. NumPlayers - 1

\* a game has ended in a draw with no winner recorded, the turn staying with
\* the last seat that discarded
C39_Witness ==
  /\ gameStatus = DRAW_GAME
  /\ turnPhase = GAME_OVER
  /\ winnerId = Undefined
  /\ currentPlayer \in PlayerIds
  /\ discardPile # << >>

====
